---- MODULE Spec2Model ----
(***************************************************************************)
(* PicoCart64: the inter-controller command framing protocol, the SD job   *)
(* manager, the ROM loader and the PI bus dispatcher.                       *)
(*                                                                         *)
(* mcu1 is the bus-facing controller (the requester), mcu2 the controller  *)
(* that owns the SD card and programs the memory array (the storage        *)
(* controller).  Both run sdcard/internal_sd_card.c, each with its own     *)
(* copy of the file's globals: the records mcu1 and mcu2 hold them under    *)
(* the source's names.  wire12 and wire21 are the bytes in flight on the   *)
(* transport, oldest first.                                                 *)
(***************************************************************************)
EXTENDS Integers, Sequences, FiniteSets, TLC

(***************************************************************************)
(* Program constants.                                                       *)
(***************************************************************************)
COMMAND_START == 222
COMMAND_START2 == 173
COMMAND_SD_READ == 114
COMMAND_LOAD_ROM == 108
COMMAND_ROM_LOADED == 198
COMMAND_BACKUP_EEPROM == 190
COMMAND_LOAD_BACKUP_EEPROM == 235
COMMAND_SET_EEPROM_TYPE == 231
COMMAND_HEADER_LENGTH == 3
DISK_READ_BUFFER_SIZE == 512
SD_CARD_SECTOR_SIZE == 512

(***************************************************************************)
(* Bounds of the model.                                                     *)
(***************************************************************************)
\* frames the requester may send in one run
MaxFrames == 2
\* stray bytes the transport may insert in one run
MaxNoise == 1
\* iterations of the loop of send_data followed in one call
MaxSendLoops == 3
\* bus words the console may put on the PI bus in one run
MaxWords == 4
\* times the restart signal may be raised in one run
\* the bus words of a session on the control registers
MaxRegWords == 5

\* the bus words of a session on the cartridge ROM
MaxBootWords == 5

\* the bus words of a session on the Save-RAM
MaxSramWords == 5

\* the bus words of a session on the sector registers
MaxSectorWords == 7

\* the bus words of a session that selects a title
MaxSelectWords == 6

\* the capacity of the queue of notifications to the requester's other core
\* (8 entries in the hardware, scaled so that a session fills it)
FifoDepth == 1

MaxRestarts == 1

(***************************************************************************)
(* Integer helpers: C's shifts, masks and narrowing casts.                  *)
(***************************************************************************)
Min(a, b) == IF a < b THEN a ELSE b

\* (uint8_t)x and (char)x (char is unsigned on this target)
U8(x) == x % 256

U16(x) == x % 65536

\* x >> n on an unsigned value
Shr(x, n) == x \div (2 ^ n)

(***************************************************************************)
(* A uint32_t is the pair << upper 16 bits, lower 16 bits >>.               *)
(***************************************************************************)
W32(hi, lo) == << hi, lo >>

Zero32 == W32(0, 0)

Hi16(w) == w[1]

Lo16(w) == w[2]

\* w + n modulo 2^32, for 0 <= n < 65536
Add32(w, n) ==
    LET t == w[2] + n
    IN W32((w[1] + (t \div 65536)) % 65536, t % 65536)

\* a <= b as unsigned 32-bit values
Le32(a, b) == a[1] < b[1] \/ (a[1] = b[1] /\ a[2] <= b[2])

\* the four bytes of w, most significant first
Byte3(w) == w[1] \div 256
Byte2(w) == w[1] % 256
Byte1(w) == w[2] \div 256
Byte0(w) == w[2] % 256

(***************************************************************************)
(* Memory: an array is a function from the indices written so far to the   *)
(* values stored there; the globals are zero-initialised, so an index      *)
(* never written reads 0.                                                   *)
(***************************************************************************)
EmptyBuf == << >>

Load(buf, i) == IF i < Len(buf) THEN buf[i + 1] ELSE 0

Store(buf, i, v) ==
    IF i < Len(buf) THEN [buf EXCEPT ![i + 1] = v]
    ELSE IF i = Len(buf) THEN Append(buf, v)
    ELSE Append(buf \o [k \in 1..(i - Len(buf)) |-> 0], v)

\* the first n bytes of a buffer, as a sequence
Bytes(buf, n) ==
    IF n <= Len(buf) THEN SubSeq(buf, 1, n)
    ELSE buf \o [k \in 1..(n - Len(buf)) |-> 0]

\* the C string that starts at buf[0]: the bytes before the first NUL
StrFrom(buf, i) ==
    IF Load(buf, i) = 0 THEN <<>>
    ELSE LET n == CHOOSE n \in i..Len(buf) :
                      Load(buf, n) = 0 /\ \A j \in i..(n - 1) : Load(buf, j) # 0
         IN [k \in 1..(n - i) |-> Load(buf, i + k - 1)]

CString(buf) == StrFrom(buf, 0)

(***************************************************************************)
(* The storage controller's parser: mcu2_process_rx_buffer, one iteration  *)
(* of its while loop for the received byte ch.                              *)
(***************************************************************************)
\* joybus.h
EEPROM_TYPE_4K == 128

EEPROM_TYPE_16K == 192

Mcu2Globals ==
    [ mayHaveStart |-> FALSE,
      receivingData |-> FALSE,
      isReadingCommandHeader |-> FALSE,
      command_headerBufferIndex |-> 0,
      command_numBytesToRead |-> 0,
      command_processBuffer |-> FALSE,
      commandHeaderBuffer |-> [i \in 0..2 |-> 0],
      bufferIndex |-> 0,
      pc64_uart_tx_buf |-> EmptyBuf,
      sectorToSendRegisters |-> [i \in 0..1 |-> Zero32],
      numSectorsToSend |-> 0,
      sendDataReady |-> FALSE,
      startRomLoad |-> FALSE,
      sd_selected_rom_title |-> <<>>,
      eeprom_numBytesToBackup |-> 0,
      start_saveEeepromData |-> FALSE,
      sd_is_busy |-> FALSE,
      eeprom_type |-> EEPROM_TYPE_4K ]

\* command_numBytesToRead = (commandHeaderBuffer[1] << 8) | commandHeaderBuffer[2]
HeaderNumBytesLE(h) == U16(h[2] * 256 + h[1])

HeaderNumBytes(h) == U16(h[1] * 256 + h[2])

\* lines 452-478: the byte is payload, header, or a sentinel candidate
Mcu2Accept(s, ch) ==
    IF s.receivingData
    THEN LET idx == s.bufferIndex + 1
             full == idx >= s.command_numBytesToRead
         IN [s EXCEPT !.pc64_uart_tx_buf = Store(@, s.bufferIndex, ch),
                      !.bufferIndex = IF full THEN 0 ELSE idx,
                      !.command_processBuffer = IF full THEN TRUE ELSE @]
    ELSE IF s.isReadingCommandHeader
    THEN LET h == [s.commandHeaderBuffer EXCEPT ![s.command_headerBufferIndex] = ch]
             idx == s.command_headerBufferIndex + 1
         IN IF idx >= COMMAND_HEADER_LENGTH
            THEN [s EXCEPT !.commandHeaderBuffer = h,
                           !.command_numBytesToRead = HeaderNumBytes(h),
                           !.isReadingCommandHeader = FALSE,
                           !.receivingData = TRUE,
                           !.command_headerBufferIndex = 0]
            ELSE [s EXCEPT !.commandHeaderBuffer = h,
                           !.command_headerBufferIndex = idx]
    ELSE IF ch = COMMAND_START /\ ~s.receivingData
    THEN [s EXCEPT !.mayHaveStart = TRUE]
    ELSE IF ch = COMMAND_START2 /\ s.mayHaveStart /\ ~s.receivingData
    THEN [s EXCEPT !.isReadingCommandHeader = TRUE]
    ELSE s

\* (buffer[i] << 24) | (buffer[i+1] << 16) | (buffer[i+2] << 8) | buffer[i+3]
BE32(buf, i) ==
    W32(Load(buf, i) * 256 + Load(buf, i + 1), Load(buf, i + 2) * 256 + Load(buf, i + 3))

\* a dispatch that keeps the pending first sentinel
Mcu2DispatchKeepsStart(s) ==
    [s EXCEPT !.command_processBuffer = FALSE,
              !.bufferIndex = 0,
              !.mayHaveStart = TRUE,
              !.receivingData = FALSE,
              !.command_numBytesToRead = 0]

\* lines 480-523: the command is processed and the parser reset
Mcu2Dispatch(s) ==
    LET command == s.commandHeaderBuffer[0]
        buffer == s.pc64_uart_tx_buf
        handled ==
            IF command = COMMAND_SD_READ
            THEN [s EXCEPT !.sectorToSendRegisters =
                               (0 :> BE32(buffer, 0)) @@ (1 :> BE32(buffer, 4)),
                           !.numSectorsToSend = 1,
                           !.sendDataReady = TRUE]
            ELSE IF command = COMMAND_LOAD_ROM
            THEN [s EXCEPT !.sd_selected_rom_title = CString(buffer),
                           !.startRomLoad = TRUE]
            ELSE IF command = COMMAND_BACKUP_EEPROM
            THEN [s EXCEPT !.eeprom_numBytesToBackup = s.command_numBytesToRead,
                           !.start_saveEeepromData = TRUE]
            ELSE s
    IN [handled EXCEPT !.command_processBuffer = FALSE,
                       !.bufferIndex = 0,
                       !.mayHaveStart = FALSE,
                       !.receivingData = FALSE,
                       !.command_numBytesToRead = 0]

mcu2_process_rx_byte(s, ch) ==
    LET a == Mcu2Accept(s, ch)
    IN IF a.command_processBuffer THEN Mcu2Dispatch(a) ELSE a

(***************************************************************************)
(* The requester's SD job state and its two request senders.                *)
(***************************************************************************)
Mcu1Globals ==
    [ mayHaveStart |-> FALSE,
      receivingData |-> FALSE,
      isReadingCommandHeader |-> FALSE,
      command_headerBufferIndex |-> 0,
      command_numBytesToRead |-> 0,
      command_processBuffer |-> FALSE,
      commandHeaderBuffer |-> [i \in 0..2 |-> 0],
      bufferIndex |-> 0,
      bufferByteIndex |-> 0,
      lastBufferValue |-> 0,
      pc64_uart_tx_buf |-> EmptyBuf,
      sd_sector_registers |-> [i \in 0..3 |-> Zero32],
      sd_sector_count_registers |-> [i \in 0..1 |-> Zero32],
      sd_selected_rom_title |-> <<>>,
      sd_selected_title_length |-> Zero32,
      sd_is_busy |-> FALSE,
      sendDataReady |-> FALSE,
      romLoading |-> FALSE,
      eeprom |-> EmptyBuf,
      eeprom_type |-> 0 ]

pc64_set_sd_read_sector_part(s, index, value) ==
    [s EXCEPT !.sd_sector_registers[index] = value]

pc64_set_sd_read_sector_count(s, index, count) ==
    [s EXCEPT !.sd_sector_count_registers[index] = count]

\* strcpy(sd_selected_rom_title, titleBuffer), titleBuffer the transfer buffer
pc64_set_sd_rom_selection(s, len) ==
    [s EXCEPT !.sd_selected_title_length = len,
              !.sd_selected_rom_title = CString(s.pc64_uart_tx_buf)]

\* the flags pc64_send_sd_read_command sets before it emits its first byte
SdReadCommandFlagsNoBusy(s) ==
    [s EXCEPT !.sendDataReady = FALSE,
              !.bufferIndex = 0,
              !.bufferByteIndex = 0]

SdReadCommandFlags(s) ==
    [s EXCEPT !.sd_is_busy = TRUE,
              !.sendDataReady = FALSE,
              !.bufferIndex = 0,
              !.bufferByteIndex = 0]

\* a sender that takes the low half of each register
SdReadSectorBytesLow(r) ==
    << Byte1(r[0]), Byte0(r[0]), Byte1(r[1]), Byte0(r[1]),
       Byte1(r[2]), Byte0(r[2]), Byte1(r[3]), Byte0(r[3]) >>

\* (char)(sd_sector_registers[i] >> 24), (char)(sd_sector_registers[i] >> 16)
SdReadSectorBytes(r) ==
    << Byte3(r[0]), Byte2(r[0]), Byte3(r[1]), Byte2(r[1]),
       Byte3(r[2]), Byte2(r[2]), Byte3(r[3]), Byte2(r[3]) >>

\* the bytes pc64_send_sd_read_command puts on the transport (sectorCount = 1)
SdReadCommandBytes(s) ==
    LET sectorCount == 1
    IN << COMMAND_START, COMMAND_START2, COMMAND_SD_READ, 0, 12 >>
       \o SdReadSectorBytes(s.sd_sector_registers)
       \o << U8(Shr(sectorCount, 24)), U8(Shr(sectorCount, 16)),
             U8(Shr(sectorCount, 8)), U8(sectorCount) >>

LoadRomCommandFlags(s) ==
    [s EXCEPT !.sd_is_busy = TRUE,
              !.sendDataReady = FALSE,
              !.romLoading = TRUE,
              !.bufferIndex = 0,
              !.bufferByteIndex = 0]

\* the bytes pc64_send_load_new_rom_command puts on the transport
LoadRomCommandBytes(s) ==
    LET numBytes == U16(Len(s.sd_selected_rom_title))
    IN << COMMAND_START, COMMAND_START2, COMMAND_LOAD_ROM,
          U8(Shr(numBytes, 8)), U8(numBytes) >>
       \o s.sd_selected_rom_title

(***************************************************************************)
(* The requester's receive handler: mcu1_process_rx_buffer, one iteration  *)
(* of its while loop for the received byte value.  While a ROM load is in  *)
(* progress the bytes are parsed as command frames; otherwise they are the *)
(* raw bytes of a sector, stored as 16-bit words.                           *)
(***************************************************************************)
\* pc64_uart_tx_buf is an array of uint16_t in little-endian memory; the
\* parsers address it through a uint8_t pointer
StoreWord(buf, i, w) == Store(Store(buf, 2 * i, w % 256), 2 * i + 1, w \div 256)

LoadWord(buf, i) == Load(buf, 2 * i) + 256 * Load(buf, 2 * i + 1)

\* lines 356-390
Mcu1Accept(s, value) ==
    IF s.receivingData
    THEN LET idx == s.bufferIndex + 1
             full == idx >= s.command_numBytesToRead
             toEeprom == s.commandHeaderBuffer[0] = COMMAND_LOAD_BACKUP_EEPROM
         IN [s EXCEPT !.eeprom = IF toEeprom THEN Store(@, s.bufferIndex, value) ELSE @,
                      !.pc64_uart_tx_buf = IF toEeprom THEN @ ELSE Store(@, s.bufferIndex, value),
                      !.bufferIndex = IF full THEN 0 ELSE idx,
                      !.command_processBuffer = IF full THEN TRUE ELSE @]
    ELSE IF s.isReadingCommandHeader
    THEN LET h == [s.commandHeaderBuffer EXCEPT ![s.command_headerBufferIndex] = value]
             idx == s.command_headerBufferIndex + 1
             n == HeaderNumBytes(h)
         IN IF idx >= COMMAND_HEADER_LENGTH
            THEN [s EXCEPT !.commandHeaderBuffer = h,
                           !.command_numBytesToRead = n,
                           !.isReadingCommandHeader = FALSE,
                           !.command_headerBufferIndex = 0,
                           !.command_processBuffer = IF n = 0 THEN TRUE ELSE @,
                           !.bufferIndex = IF n = 0 THEN 0 ELSE @,
                           !.receivingData = IF n = 0 THEN @ ELSE TRUE]
            ELSE [s EXCEPT !.commandHeaderBuffer = h,
                           !.command_headerBufferIndex = idx]
    ELSE IF value = COMMAND_START /\ ~s.receivingData
    THEN [s EXCEPT !.mayHaveStart = TRUE]
    ELSE IF value = COMMAND_START2 /\ s.mayHaveStart /\ ~s.receivingData
    THEN [s EXCEPT !.isReadingCommandHeader = TRUE]
    ELSE s

\* a dispatch that takes every frame for the completion
Mcu1DispatchAnyFrame(s) ==
    [s EXCEPT !.romLoading = FALSE,
              !.sendDataReady = TRUE,
              !.command_processBuffer = FALSE,
              !.commandHeaderBuffer = [i \in 0..2 |-> 0],
              !.bufferIndex = 0,
              !.mayHaveStart = FALSE,
              !.receivingData = FALSE]

\* lines 392-417
Mcu1Dispatch(s) ==
    LET command == s.commandHeaderBuffer[0]
        buffer == s.pc64_uart_tx_buf
        handled ==
            IF command = COMMAND_SET_EEPROM_TYPE
            THEN [s EXCEPT !.eeprom_type = Load(buffer, 0) * 256 + Load(buffer, 1)]
            ELSE IF command = COMMAND_LOAD_BACKUP_EEPROM
            THEN s
            ELSE IF command = COMMAND_ROM_LOADED
            THEN [s EXCEPT !.romLoading = FALSE,
                           !.sendDataReady = TRUE]
            ELSE s
    IN [handled EXCEPT !.command_processBuffer = FALSE,
                       !.commandHeaderBuffer = [i \in 0..2 |-> 0],
                       !.bufferIndex = 0,
                       !.mayHaveStart = FALSE,
                       !.receivingData = FALSE]

\* a variant that flags the sector complete at half its size
Mcu1RawHalf(s, value) ==
    LET odd == s.bufferByteIndex % 2 = 1
        value16 == U16(s.lastBufferValue * 256 + value)
        n == s.bufferByteIndex + 1
    IN [s EXCEPT !.pc64_uart_tx_buf = IF odd THEN StoreWord(@, s.bufferIndex, value16) ELSE @,
                 !.bufferIndex = IF odd THEN @ + 1 ELSE @,
                 !.lastBufferValue = IF odd THEN @ ELSE value,
                 !.bufferByteIndex = n,
                 !.sendDataReady = IF 2 * n >= SD_CARD_SECTOR_SIZE THEN TRUE ELSE @]

\* lines 419-439
Mcu1Raw(s, value) ==
    LET odd == s.bufferByteIndex % 2 = 1
        value16 == U16(s.lastBufferValue * 256 + value)
        n == s.bufferByteIndex + 1
    IN [s EXCEPT !.pc64_uart_tx_buf = IF odd THEN StoreWord(@, s.bufferIndex, value16) ELSE @,
                 !.bufferIndex = IF odd THEN @ + 1 ELSE @,
                 !.lastBufferValue = IF odd THEN @ ELSE value,
                 !.bufferByteIndex = n,
                 !.sendDataReady = IF n >= SD_CARD_SECTOR_SIZE THEN TRUE ELSE @]

mcu1_process_rx_byte(s, value) ==
    IF s.romLoading
    THEN LET a == Mcu1Accept(s, value)
         IN IF a.command_processBuffer THEN Mcu1Dispatch(a) ELSE a
    ELSE Mcu1Raw(s, value)

\* the break at line 434: the loop is left after a raw byte that completes
\* a sector, whatever is still in the receive queue
Mcu1Break(s, q) == ~s.romLoading /\ q.bufferByteIndex >= SD_CARD_SECTOR_SIZE

\* The requester's core-1 loop around the handler (mcu1.c): once the
\* completion is flagged, the cartridge is no longer busy.
Mcu1Completion(s) == IF s.sendDataReady THEN [s EXCEPT !.sd_is_busy = FALSE] ELSE s

(***************************************************************************)
(* The storage controller's side of an SD read: send_sd_card_data and      *)
(* send_data.  A 64-bit sector number is the pair << front, back >> of its *)
(* 32-bit halves; the disk read buffer is identified by the sector it      *)
(* holds (<<>>: still zero, nothing read yet).                              *)
(***************************************************************************)
Sector64Swapped(regs) == << regs[1], regs[0] >>

\* sector = (sectorFront << 32) | sectorToSendRegisters[1]
Sector64(regs) == << regs[0], regs[1] >>

\* the byte at position i of the card's block sector
BlockByte(sector, i) == (Lo16(sector[2]) + Hi16(sector[1]) + 3 * i) % 256

DiskBufferBytes(diskReadBuffer) ==
    [k \in 1..DISK_READ_BUFFER_SIZE |->
        IF diskReadBuffer = <<>> THEN 0 ELSE BlockByte(diskReadBuffer, k - 1)]

\* disk_read(0, diskReadBuffer, sector, 1): on an error the buffer keeps
\* what it held
disk_read(diskReadBuffer, sector, ok) == IF ok THEN sector ELSE diskReadBuffer

\* the do-while loop of send_data; r collects the disk reads made and the
\* bytes put on the transport
RECURSIVE SendDataLoop(_, _, _, _)
SendDataLoop(r, sector, sectorCount, ok) ==
    LET buf == disk_read(r.diskReadBuffer, sector, ok)
        n == sectorCount - 1
        q == [ diskReadBuffer |-> buf,
               reads |-> Append(r.reads, sector),
               out |-> r.out \o DiskBufferBytes(buf) ]
    IN IF n > 1 THEN SendDataLoop(q, sector, n, ok) ELSE q

send_data(s, diskReadBuffer, sectorCount, ok) ==
    SendDataLoop([diskReadBuffer |-> diskReadBuffer, reads |-> <<>>, out |-> <<>>],
                 Sector64(s.sectorToSendRegisters), sectorCount, ok)

(***************************************************************************)
(* The storage controller's side of a ROM load: load_new_rom.               *)
(***************************************************************************)
\* char buf[512]
sizeof_buf == 512

\* chunks of sizeof_buf bytes a memory chip holds, and the chips declared
ChunksPerChip == 2

NumChips == 3

\* psram.h
PSRAM_CHIP_CAPACITY_BYTES == ChunksPerChip * sizeof_buf

START_ROM_LOAD_CHIP_INDEX == 1

MAX_MEMORY_ARRAY_CHIP_INDEX == START_ROM_LOAD_CHIP_INDEX + NumChips - 1

\* the chip select values of the memory array
ChipSelectValues == 8

psram_addr_to_chip(address) ==
    START_ROM_LOAD_CHIP_INDEX
        + ((address \div PSRAM_CHIP_CAPACITY_BYTES) % ChipSelectValues)

\* the condition under which the load loop switches chip, a variant
\* without the upper limit first
SwitchesChipNoLimit(newChip, currentPSRAMChip) == newChip # currentPSRAMChip

SwitchesChip(newChip, currentPSRAMChip) ==
    newChip # currentPSRAMChip /\ newChip <= MAX_MEMORY_ARRAY_CHIP_INDEX

\* the set-EEPROM-type frame, lines 191-197
SetEepromTypeBytes ==
    << COMMAND_START, COMMAND_START2, COMMAND_SET_EEPROM_TYPE, 0, 2,
       U8(Shr(EEPROM_TYPE_4K, 8)), U8(EEPROM_TYPE_4K) >>

\* the byte at position i of the save file
EepByte(i) == (5 * i + 1) % 256

\* a frame that has 512 payload bytes for every type
LoadBackupEepromBytesSmall(eeprom_type) ==
    << COMMAND_START, COMMAND_START2, COMMAND_LOAD_BACKUP_EEPROM, 2, 0 >>
       \o [k \in 1..512 |-> EepByte(k - 1)]

\* load_eeprom_from_sd: the frame sent when the save file exists
LoadBackupEepromBytes(eeprom_type) ==
    LET numBytesToSend == IF eeprom_type = EEPROM_TYPE_4K THEN 512 ELSE 2048
    IN << COMMAND_START, COMMAND_START2, COMMAND_LOAD_BACKUP_EEPROM,
          U8(Shr(numBytesToSend, 8)), U8(numBytesToSend) >>
       \o [k \in 1..numBytesToSend |-> EepByte(k - 1)]

\* lines 323-328
RomLoadedBytes ==
    << COMMAND_START, COMMAND_START2, COMMAND_ROM_LOADED, 0, 0 >>

\* the chips selected after the load loop: lines 247-262 and 272-273
PostLoadChips ==
    [k \in 1..8 |-> START_ROM_LOAD_CHIP_INDEX + ((k - 1) % 4)]

StorInit ==
    [ pc |-> "idle",
      diskReadBuffer |-> <<>>,
      sends |-> <<>>,
      fsize |-> 0,
      len |-> 0,
      total |-> 0,
      currentPSRAMChip |-> 0,
      psram_cs |-> 0,
      csLog |-> <<>>,
      writes |-> <<>>,
      readFailed |-> FALSE,
      sd |-> [ asked |-> Zero32, sectorCount |-> Zero32,
               sector |-> << Zero32, Zero32 >>,
               loopCount |-> 0, reads |-> <<>>, emitted |-> 0 ] ]

(***************************************************************************)
(* The PI bus dispatcher: n64_pi_run (n64_pi_task.c).  A bus word is a     *)
(* uint32_t: 0 is a read, a word with bit 0 set is a write whose data are  *)
(* its upper 16 bits, any other word is an address.                         *)
(***************************************************************************)
\* a - b modulo 2^32
Sub32(a, b) ==
    LET borrow == IF a[2] < b[2] THEN 1 ELSE 0
    IN W32((a[1] - b[1] - borrow + 65536) % 65536, (a[2] - b[2] + 65536) % 65536)

\* the value of w as an integer, for w below 2^31
Int32(w) == w[1] * 65536 + w[2]

InRange(a, lo, hi) == Le32(lo, a) /\ Le32(a, hi)

\* utils.h
swap8(x) == (x % 256) * 256 + (x \div 256)

\* n64_defs.h
CART_SRAM_START == W32(2048, 0)

CART_SRAM_END == W32(4095, 65535)

\* 0x10000000 and 0x1FBFFFFF, lines 245 and 347
CART_ROM_START == W32(4096, 0)

CART_ROM_END == W32(8127, 65535)

\* 0x81000000 and 0x81001000, line 611
ECHO_RANGE_START == W32(33024, 0)

ECHO_RANGE_END == W32(33024, 4096)

\* pc64_regs.h
PC64_BASE_ADDRESS_LENGTH == 4096

PC64_BASE_ADDRESS_START == W32(33024, 0)

PC64_BASE_ADDRESS_END == Add32(PC64_BASE_ADDRESS_START, PC64_BASE_ADDRESS_LENGTH - 1)

PC64_RAND_ADDRESS_LENGTH == 4

PC64_RAND_ADDRESS_START == W32(33280, 0)

PC64_RAND_ADDRESS_END == Add32(PC64_RAND_ADDRESS_START, PC64_RAND_ADDRESS_LENGTH - 1)

PC64_CIBASE_ADDRESS_LENGTH == 2048

PC64_CIBASE_ADDRESS_START == W32(33536, 0)

PC64_CIBASE_ADDRESS_END == Add32(PC64_CIBASE_ADDRESS_START, PC64_CIBASE_ADDRESS_LENGTH - 1)

PC64_REGISTER_MAGIC == 0

PC64_REGISTER_UART_TX == 4

PC64_REGISTER_RAND_SEED == 8

PC64_COMMAND_SD_READ == 12

PC64_REGISTER_SD_BUSY == 20

PC64_REGISTER_SD_READ_SECTOR0 == 24

PC64_REGISTER_SD_READ_SECTOR1 == 28

PC64_REGISTER_SD_READ_NUM_SECTORS == 32

PC64_REGISTER_SD_SELECT_ROM == 36

PC64_MAGIC == W32(57005, 25600)

\* sizeof(pc64_uart_tx_buf), an array of PC64_BASE_ADDRESS_LENGTH uint16_t
sizeof_pc64_uart_tx_buf == 2 * PC64_BASE_ADDRESS_LENGTH

\* the two half-words of the bus timing patch, lines 251 and 273
BOOT_PATCH_HIGH == 32823

BOOT_PATCH_LOW == 5696

\* lines 62-80
g_addressModifierTable ==
    [c \in 0..ChipSelectValues |->
        IF c = 0 THEN 0 ELSE (c - 1) * PSRAM_CHIP_CAPACITY_BYTES]

\* ptr16 + (((last_addr - g_addressModifierTable[chip]) & 0xFFFFFF) >> 1),
\* as an index of half-words from ptr16
RomReadAddr(last_addr, chip) ==
    ((Int32(last_addr) - g_addressModifierTable[chip]) % 16777216) \div 2

\* the half-word the selected chip holds at half-word index i of its window
PsramWord(chip, i) == (chip * 4096 + (i % 4096)) % 65536

\* pc64_rand.h: the generator's state is its seed and the values drawn
pc64_rand_seed(r, seed) == [seed |-> seed, n |-> 0]

pc64_rand16(r) == (Lo16(r.seed) + 40503 * (r.n + 1)) % 65536

\* internal_sd_card.h declares the title length register setter; its state
\* is read by nothing in the dispatcher
pc64_set_sd_rom_selection_length_register(s, value, index) == s

(***************************************************************************)
(* The dispatcher's state: where it waits (pc), its locals and the globals *)
(* of n64_pi_task.c, the chip the memory array has selected (psram_cs, the *)
(* start chip after boot), the DMA channel, the notifications pushed to    *)
(* the other core (fifo) and the one a blocked push still holds (pushing),  *)
(* the replies put since the last word was taken (txf), and what an         *)
(* observer keeps: the bytes the dispatcher itself put on the transport     *)
(* (io), the words the session may still bring (budget), the last address   *)
(* taken at the loop head and the branch that took it (cls), the number of  *)
(* words taken since then if all were reads (reads, else -1), the cartridge address the next       *)
(* trigger asks the channel to fetch (want), the last word and its kind,   *)
(* the cursor before it and before the first half of a two-half operation  *)
(* (op), and for the last trigger of the channel its place, whether a poll *)
(* preceded it, whether the channel was busy, the chip selected and the    *)
(* address asked for (trig).                                                *)
(***************************************************************************)
IsRead(w) == w = Zero32

IsWrite(w) == Lo16(w) % 2 = 1

IsAddress(w) == ~IsRead(w) /\ ~IsWrite(w)

Took(w) == IF IsRead(w) THEN "read" ELSE IF IsWrite(w) THEN "write" ELSE "address"

\* dma_channel_configure: 16-bit transfers, one per trigger, both addresses
\* incrementing
DmaConfigured ==
    [ busy |-> FALSE, queued |-> FALSE, read_addr |-> 0, write_addr |-> 0,
      chip |-> 0 ]

PiInit ==
    [ pc |-> "off",
      addr |-> Zero32,
      last_addr |-> Zero32,
      next_word |-> Zero32,
      write_word |-> Zero32,
      sram_addr |-> 0,
      g_currentMemoryArrayChip |-> START_ROM_LOAD_CHIP_INDEX,
      psram_cs |-> START_ROM_LOAD_CHIP_INDEX,
      g_restart_pi_handler |-> FALSE,
      answered |-> 0,
      dma_bi |-> 0,
      dma |-> DmaConfigured,
      claimed |-> 0,
      sram |-> EmptyBuf,
      rand |-> [seed |-> Zero32, n |-> 0],
      fifo |-> <<>>,
      pushing |-> "none",
      txf |-> <<>>,
      io |-> 0,
      budget |-> MaxWords,
      cls |-> [a |-> Zero32, to |-> "none"],
      reads |-> -1,
      want |-> 0,
      words |-> 0,
      restarts |-> 0,
      op |-> [took |-> "none", kind |-> "none", prev |-> Zero32, from |-> Zero32,
              w |-> Zero32],
      trig |-> [site |-> "none", polled |-> FALSE, busy |-> FALSE, chip |-> 0, a |-> 0] ]

\* what a step of the dispatcher yields: its state, the requester's globals
\* and the bytes put on the transport
Res(p, s, out) == [p |-> [p EXCEPT !.io = @ + Len(out)], s |-> s, out |-> out]

\* n64_pi_get_value returns w
Sample(p, w) ==
    [p EXCEPT !.txf = <<>>,
              !.words = @ + 1,
              !.reads = IF IsRead(w) /\ @ >= 0 THEN @ + 1 ELSE -1,
              !.op = [took |-> Took(w), kind |-> "none", prev |-> p.last_addr, from |-> @.from,
                      w |-> w]]

\* addr = n64_pi_get_value(pio)
Get(p, w) == [Sample(p, w) EXCEPT !.addr = w]

pio_sm_put(p, v) == [p EXCEPT !.txf = Append(@, v)]

Advance(p, n, kind) == [p EXCEPT !.last_addr = Add32(@, n), !.op.kind = kind]

\* a write of a trigger register of the channel; when the channel is busy
\* the hardware either drops the trigger or starts another transfer after
\* the one in flight (queued)
DmaTrigger(p, site, polled, queued) ==
    [p EXCEPT !.trig = [site |-> site, polled |-> polled, busy |-> p.dma.busy,
                        chip |-> p.psram_cs, a |-> p.want],
              !.want = @ + 2,
              !.dma = IF ~@.busy THEN [@ EXCEPT !.busy = TRUE, !.chip = p.psram_cs]
                      ELSE IF queued THEN [@ EXCEPT !.queued = TRUE]
                      ELSE @]

\* lines 660-662; the observer notes how many times the signal had been
\* raised when the dispatcher returned
Teardown(p) == [p EXCEPT !.pc = "off", !.answered = p.restarts]

\* a loop end that does not look at the restart signal
LoopEndUnconditional(p) == Teardown(p)

\* if (g_restart_pi_handler) break; and the outer loop's condition
LoopEnd(p) == IF p.g_restart_pi_handler THEN Teardown(p) ELSE p

\* line 97
SRAM_SIZE_MASK == 32767

\* lines 99-102: (address & SRAM_SIZE_MASK) | ((address & 0xC0000) >> 3)
resolve_sram_address(address) ==
    (Lo16(address) % (SRAM_SIZE_MASK + 1))
        + ((Hi16(address) \div 4) % 4) * (SRAM_SIZE_MASK + 1)

\* lines 308-309
SramEntry(p) ==
    LET sram_addr == (Lo16(p.last_addr) % 32768) \div 2
    IN [p EXCEPT !.sram_addr = sram_addr,
                 !.next_word = W32(0, Load(p.sram, sram_addr)),
                 !.pc = "sram"]

\* lines 351-362, up to the busy wait
RomEntry(p, queued) ==
    LET tempChip == psram_addr_to_chip(Int32(p.last_addr))
        q == IF tempChip # p.g_currentMemoryArrayChip
             THEN [p EXCEPT !.g_currentMemoryArrayChip = tempChip,
                            !.psram_cs = tempChip]
             ELSE p
        r == [q EXCEPT !.dma_bi = 0,
                       !.dma.read_addr = RomReadAddr(q.last_addr, q.g_currentMemoryArrayChip),
                       !.dma.write_addr = 0,
                       !.want = Int32(q.last_addr)]
    IN [DmaTrigger(r, "al2_write_addr_trig", FALSE, queued) EXCEPT !.pc = "rom_poll"]

\* the range tests on the new address in addr: lines 240-245, 306, 347,
\* 434, 466, 611-614, 623, 646
Classify(p, s, queued) ==
         LET q == [p EXCEPT !.last_addr = p.addr]
             a == p.addr
         IN IF a = CART_ROM_START
            THEN Res([q EXCEPT !.next_word = W32(0, BOOT_PATCH_HIGH), !.pc = "boot_1"], s, <<>>)
            ELSE IF InRange(a, CART_SRAM_START, CART_SRAM_END)
            THEN Res(SramEntry(q), s, <<>>)
            ELSE IF InRange(a, CART_ROM_START, CART_ROM_END)
            THEN Res(RomEntry(q, queued), s, <<>>)
            ELSE IF InRange(a, PC64_BASE_ADDRESS_START, PC64_BASE_ADDRESS_END)
            THEN Res([q EXCEPT !.pc = "base"], s, <<>>)
            ELSE IF InRange(a, PC64_CIBASE_ADDRESS_START, PC64_CIBASE_ADDRESS_END)
            THEN Res([q EXCEPT !.pc = "cibase"], s, <<>>)
            ELSE IF InRange(a, ECHO_RANGE_START, ECHO_RANGE_END)
            THEN Res([q EXCEPT !.pc = "echo_1"], s, << 9, 8, 7 >>)
            ELSE IF InRange(a, PC64_RAND_ADDRESS_START, PC64_RAND_ADDRESS_END)
            THEN Res([q EXCEPT !.pc = "rand"], s, <<>>)
            ELSE Res([q EXCEPT !.pc = "unmapped_1"], s, <<>>)

\* the head of the outer loop with the new address in addr: line 236 and
\* the branch taken
LoopHead(p, s, queued) ==
    IF p.g_restart_pi_handler THEN Res(Teardown(p), s, <<>>)
    ELSE LET r == Classify(p, s, queued)
         IN [r EXCEPT !.p.cls = [a |-> p.addr, to |-> r.p.pc], !.p.reads = 0]

\* lines 373-375, the read of the ROM loop
RomRead(p, s, queued) ==
    LET q == pio_sm_put(p, LoadWord(s.pc64_uart_tx_buf, p.dma_bi))
        r == [q EXCEPT !.dma_bi = U16(@ + 1)]
    IN [Advance(DmaTrigger(r, "read", FALSE, queued), 2, "single") EXCEPT !.pc = "rom"]

\* Boot-Patch, lines 245-305: the word w arrives at line 252, 279 or 298
BootPatchWord(p, s, w, queued) ==
    LET g == Get(p, w)
        kind == IF IsRead(w) THEN "single" ELSE "none"
    IN IF p.pc = "boot_1"
       THEN Res([Advance(pio_sm_put(g, Lo16(g.next_word)), 2, kind) EXCEPT
                    !.next_word = W32(0, BOOT_PATCH_LOW),
                    !.pc = "boot_2"], s, <<>>)
       ELSE IF p.pc = "boot_2"
       THEN LET q == Advance(pio_sm_put(g, Lo16(g.next_word)), 2, kind)
                r == [q EXCEPT !.dma.read_addr = RomReadAddr(q.last_addr, q.g_currentMemoryArrayChip),
                               !.want = Int32(q.last_addr)]
            IN Res([DmaTrigger(r, "al3_read_addr_trig", FALSE, queued) EXCEPT !.pc = "boot_poll"], s, <<>>)
       ELSE IF IsRead(w)
       THEN Res(RomRead(g, s, queued), s, <<>>)
       ELSE LoopHead(g, s, queued)

\* Save-RAM, lines 317-346: the word w arrives at line 321
SramWord(p, s, w, queued) ==
    LET g == Get(p, w)
    IN IF IsWrite(w)
       THEN Res([Advance(g, 2, "single") EXCEPT
                    !.sram = Store(@, g.sram_addr, Hi16(w)),
                    !.sram_addr = @ + 1], s, <<>>)
       ELSE IF IsRead(w)
       THEN Res([Advance(pio_sm_put(g, Lo16(g.next_word)), 2, "single") EXCEPT
                    !.sram_addr = @ + 1,
                    !.next_word = W32(0, Load(g.sram, g.sram_addr + 1))], s, <<>>)
       ELSE LoopHead(g, s, queued)

\* Cartridge ROM, lines 365-385: the word w arrives at line 368
RomWord(p, s, w, queued) ==
    LET g == Get(p, w)
    IN IF IsRead(w) THEN Res(RomRead(g, s, queued), s, <<>>)
       ELSE IF IsWrite(w) THEN Res(Advance(g, 2, "single"), s, <<>>)
       ELSE LoopHead(g, s, queued)

\* Peripheral-Base, lines 436-464: the word w arrives at line 442
BaseWord(p, s, w, queued) ==
    LET buf_index == (Lo16(p.last_addr) % sizeof_pc64_uart_tx_buf) \div 2
        g == Get(p, w)
    IN IF IsWrite(w)
       THEN Res(LoopEnd(Advance(g, 2, "single")),
                [s EXCEPT !.pc64_uart_tx_buf = StoreWord(@, buf_index, swap8(Hi16(w)))],
                <<>>)
       ELSE IF IsRead(w)
       THEN LET next_word == LoadWord(s.pc64_uart_tx_buf, buf_index)
            IN Res(LoopEnd(Advance(pio_sm_put([g EXCEPT !.next_word = W32(0, next_word)],
                                              next_word), 2, "single")), s, <<>>)
       ELSE LoopHead(g, s, queued)

\* a register file that answers the busy flag in the first half of SD_BUSY
CiReadBusyFirst(g, s) ==
    LET reg == Sub32(g.last_addr, PC64_CIBASE_ADDRESS_START)
    IN IF reg = W32(0, PC64_REGISTER_MAGIC)
       THEN [Advance(pio_sm_put([g EXCEPT !.next_word = PC64_MAGIC], Hi16(PC64_MAGIC)), 2, "first")
                EXCEPT !.op.from = g.last_addr, !.pc = "cibase_magic"]
       ELSE IF reg = W32(0, PC64_REGISTER_SD_BUSY)
       THEN LoopEnd(Advance(pio_sm_put(g, IF s.sd_is_busy THEN 1 ELSE 0), 2, "single"))
       ELSE IF reg = W32(0, PC64_REGISTER_SD_BUSY + 2)
       THEN LoopEnd(Advance(pio_sm_put(g, 0), 2, "single"))
       ELSE LoopEnd(Advance([g EXCEPT !.next_word = Zero32], 2, "single"))

\* Control-Register Block, a read at line 470: lines 474-524
CiRead(g, s) ==
    LET reg == Sub32(g.last_addr, PC64_CIBASE_ADDRESS_START)
    IN IF reg = W32(0, PC64_REGISTER_MAGIC)
       THEN [Advance(pio_sm_put([g EXCEPT !.next_word = PC64_MAGIC], Hi16(PC64_MAGIC)), 2, "first")
                EXCEPT !.op.from = g.last_addr, !.pc = "cibase_magic"]
       ELSE IF reg = W32(0, PC64_REGISTER_SD_BUSY)
       THEN LoopEnd(Advance(pio_sm_put(g, 0), 2, "single"))
       ELSE IF reg = W32(0, PC64_REGISTER_SD_BUSY + 2)
       THEN LoopEnd(Advance(pio_sm_put(g, IF s.sd_is_busy THEN 1 ELSE 0), 2, "single"))
       ELSE LoopEnd(Advance([g EXCEPT !.next_word = Zero32], 2, "single"))

\* a register file that takes a write to either half of SD_SELECT_ROM as
\* the selection
CiWriteSelectsOnFirstHalf(g, s, write_word) ==
    LET reg == Sub32(g.last_addr, PC64_CIBASE_ADDRESS_START)
        done == LoopEnd(Advance(g, 2, "single"))
        push(cmd) == IF Len(g.fifo) < FifoDepth
                     THEN [done EXCEPT !.fifo = Append(@, cmd)]
                     ELSE [g EXCEPT !.pushing = cmd, !.pc = "fifo_push"]
    IN IF reg \in { W32(0, PC64_REGISTER_SD_SELECT_ROM), W32(0, PC64_REGISTER_SD_SELECT_ROM + 2) }
       THEN Res(push("CORE1_LOAD_NEW_ROM_CMD"), pc64_set_sd_rom_selection(s, write_word), <<>>)
       ELSE Res(done, s, <<>>)

\* Control-Register Block, a write at line 470: lines 530-601 for the
\* registers written in one half
CiWrite(g, s, write_word) ==
    LET reg == Sub32(g.last_addr, PC64_CIBASE_ADDRESS_START)
        done == LoopEnd(Advance(g, 2, "single"))
        push(cmd) == IF Len(g.fifo) < FifoDepth
                     THEN [done EXCEPT !.fifo = Append(@, cmd)]
                     ELSE [g EXCEPT !.pushing = cmd, !.pc = "fifo_push"]
    IN IF reg = W32(0, PC64_COMMAND_SD_READ + 2)
       THEN Res(push("CORE1_SEND_SD_READ_CMD"), s, <<>>)
       ELSE IF reg = W32(0, PC64_REGISTER_SD_READ_SECTOR0)
       THEN Res(done, pc64_set_sd_read_sector_part(s, 0, write_word), <<>>)
       ELSE IF reg = W32(0, PC64_REGISTER_SD_READ_SECTOR0 + 2)
       THEN Res(done, pc64_set_sd_read_sector_part(s, 1, write_word), <<>>)
       ELSE IF reg = W32(0, PC64_REGISTER_SD_READ_SECTOR1)
       THEN Res(done, pc64_set_sd_read_sector_part(s, 2, write_word), <<>>)
       ELSE IF reg = W32(0, PC64_REGISTER_SD_READ_SECTOR1 + 2)
       THEN Res(done, pc64_set_sd_read_sector_part(s, 3, write_word), <<>>)
       ELSE IF reg = W32(0, PC64_REGISTER_SD_READ_NUM_SECTORS)
       THEN Res(done, pc64_set_sd_read_sector_count(s, 1, write_word), <<>>)
       ELSE IF reg = W32(0, PC64_REGISTER_SD_READ_NUM_SECTORS + 2)
       THEN Res(done, pc64_set_sd_read_sector_count(s, 0, write_word), <<>>)
       ELSE IF reg = W32(0, PC64_REGISTER_SD_SELECT_ROM)
       THEN Res(done, pc64_set_sd_rom_selection_length_register(s, write_word, 0), <<>>)
       ELSE IF reg = W32(0, PC64_REGISTER_SD_SELECT_ROM + 2)
       THEN Res(push("CORE1_LOAD_NEW_ROM_CMD"),
                pc64_set_sd_rom_selection(
                    pc64_set_sd_rom_selection_length_register(s, write_word, 1), write_word),
                <<>>)
       ELSE Res(done, s, <<>>)

\* Control-Register Block, lines 468-610: the word w arrives at line 470,
\* 482, 536 or 542
CiWord(p, s, w, queued) ==
    IF p.pc = "cibase"
    THEN LET g == Get(p, w)
             reg == Sub32(g.last_addr, PC64_CIBASE_ADDRESS_START)
             write_word == W32(Hi16(w), 0)
         IN IF IsRead(w) THEN Res(CiRead(g, s), s, <<>>)
            ELSE IF IsWrite(w)
            THEN IF reg = W32(0, PC64_REGISTER_UART_TX)
                 THEN Res([g EXCEPT !.write_word = write_word, !.op.kind = "first",
                                    !.op.from = g.last_addr, !.pc = "cibase_uart_tx"], s, <<>>)
                 ELSE IF reg = W32(0, PC64_REGISTER_RAND_SEED)
                 THEN Res([g EXCEPT !.write_word = write_word, !.op.kind = "first",
                                    !.op.from = g.last_addr, !.pc = "cibase_rand_seed"], s, <<>>)
                 ELSE CiWrite(g, s, write_word)
            ELSE LoopHead(g, s, queued)
    ELSE IF p.pc = "cibase_magic"
    THEN LET g == Get(p, w)
         IN IF ~IsRead(w)
            THEN Res([g EXCEPT !.pc = "cibase"], s, <<>>)
            ELSE Res([LoopEnd(Advance(pio_sm_put(g, Lo16(g.next_word)), 2, "dual"))
                         EXCEPT !.pc = IF @ = "off" THEN @ ELSE "cibase"], s, <<>>)
    ELSE LET g == Sample(p, w)
             write_word == W32(Hi16(p.write_word), Hi16(w))
             q == [g EXCEPT !.write_word = write_word,
                            !.rand = IF p.pc = "cibase_rand_seed"
                                     THEN pc64_rand_seed(@, write_word) ELSE @]
         IN Res([LoopEnd(Advance(q, 4, "dual")) EXCEPT !.pc = IF @ = "off" THEN @ ELSE "cibase"],
                s, <<>>)

\* Random-Number Peripheral, lines 625-645: the word w arrives at line 627
RandWord(p, s, w, queued) ==
    LET g == Get(p, w)
    IN IF IsWrite(w) THEN Res(LoopEnd(Advance(g, 2, "single")), s, <<>>)
       ELSE IF IsRead(w)
       THEN LET next_word == pc64_rand16(g.rand)
            IN Res(LoopEnd(Advance(pio_sm_put([g EXCEPT !.next_word = W32(0, next_word),
                                                        !.rand.n = @ + 1],
                                              next_word), 2, "single")), s, <<>>)
       ELSE LoopHead(g, s, queued)

\* an unmapped branch that takes the pending word as the next address
UnmappedWordNoDrop(p, s, w, queued) == LoopHead(Get(p, w), s, queued)

\* lines 611-622 and 646-657: the word w arrives at line 616 or 650 and is
\* dropped, and the PIO program is made to jump to its start (op.kind
\* "jump"); or it arrives at line 622 or 656 after the jump
UnmappedWord(p, s, w, queued) ==
    LET g == Get(p, w)
    IN IF p.pc = "echo_1"
       THEN Res([g EXCEPT !.op.kind = "jump", !.pc = "echo_2"], s, <<>>)
       ELSE IF p.pc = "unmapped_1"
       THEN Res([g EXCEPT !.op.kind = "jump", !.pc = "unmapped_2"], s, <<>>)
       ELSE LoopHead(g, s, queued)

(***************************************************************************)
(* State.                                                                   *)
(*   mcu1, mcu2   the two controllers' globals                              *)
(*   wire12       bytes in flight from the requester to the storage         *)
(*                controller; each element carries the byte b and, for the  *)
(*                observers below, the frame f that emitted it (0: a stray  *)
(*                byte) and its position k in that frame                    *)
(*   sent12       the frames the requester has emitted, in order            *)
(*   obs2         what an observer of the storage controller's parser has   *)
(*                seen: the last two bytes received, the bytes received     *)
(*                since the last header was completed, the dispatches, the  *)
(*                frames whose first byte met an idle parser, the frames    *)
(*                received to their last byte and those after whose last    *)
(*                byte the parser was idle                                  *)
(*   noise        stray bytes inserted so far                               *)
(*   wire21, sent21, obs1                                                   *)
(*                the same for the direction from the storage controller    *)
(*                to the requester and the requester's parser; obs1 also    *)
(*                counts the raw bytes received since the last request and  *)
(*                remembers whether that request was an SD read issued      *)
(*                while no ROM load was in progress, and keeps for each of  *)
(*                the requester's dispatches the command and the job flags  *)
(*                before and after it                                       *)
(*   todo         the requests the console will still make                  *)
(*   card         the SD card: the size of the ROM file (-1: no such file)  *)
(*                and whether its save file exists                          *)
(*   stor         the storage controller's main task: where it is (idle, in *)
(*                the load loop, after it, or halted), the disk read        *)
(*                buffer, the locals of load_new_rom, the chip selected,    *)
(*                and what an observer has seen of it: per send_data call   *)
(*                the frame it answers, the disk reads made and the bytes   *)
(*                emitted; the chip selections and the chunk writes of the  *)
(*                current load, and whether a file read of it failed        *)
(*   pi           the PI bus dispatcher on the requester                    *)
(***************************************************************************)
VARIABLES mcu1, mcu2, wire12, sent12, obs2, noise, wire21, sent21, obs1,
          todo, card, stor, pi

vars == << mcu1, mcu2, wire12, sent12, obs2, noise, wire21, sent21, obs1,
           todo, card, stor, pi >>

back == << wire21, sent21, obs1 >>

disk == << card, stor >>

\* the sector numbers the console asks for: the four 16-bit values it
\* writes to SD_READ_SECTOR0, SD_READ_SECTOR0+2, SD_READ_SECTOR1 and
\* SD_READ_SECTOR1+2
Sectors == { <<0, 0, 0, 1000>>, <<57005, 173, 222, 4660>> }

\* the titles the console selects (the bytes of a C string)
Titles == { <<>>, <<65>>, <<222, 173, 66>> }

\* the stray byte sequences the transport may deliver
NoiseBursts ==
    { <<0>>, <<COMMAND_START>>, <<COMMAND_START2>>,
      <<COMMAND_START, 0, COMMAND_START2>>, <<COMMAND_START, COMMAND_START2>> }

\* IDLE: not receiving data, not reading a header, no pending first
\* sentinel, payload index 0
ParserIdle(p) ==
    /\ ~p.receivingData
    /\ ~p.isReadingCommandHeader
    /\ ~p.mayHaveStart
    /\ p.bufferIndex = 0

\* the globals of the frame parser and the buffer it fills; the other
\* globals of a controller are its SD job state
ParserFields ==
    { "mayHaveStart", "receivingData", "isReadingCommandHeader",
      "command_headerBufferIndex", "command_numBytesToRead", "command_processBuffer",
      "commandHeaderBuffer", "bufferIndex", "bufferByteIndex", "lastBufferValue",
      "pc64_uart_tx_buf" }

Job(p) == [k \in DOMAIN p \ ParserFields |-> p[k]]

ObsInit ==
    [ prev2 |-> -1, prev |-> -1, since |-> 0, disp |-> <<>>,
      startedIdle |-> {}, ended |-> {}, endedIdle |-> {},
      raw |-> 0, sdRead |-> FALSE, flags |-> <<>> ]

\* the observer's record after the parser went from state p to state q on
\* the wire element e; a is the state between acceptance and dispatch
Observe(o, p, a, q, e, lastOfFrame) ==
    LET headerDone == p.isReadingCommandHeader /\ ~a.isReadingCommandHeader
        since == IF headerDone THEN 0 ELSE o.since + 1
        d == [ cmd |-> a.commandHeaderBuffer[0],
               len |-> a.command_numBytesToRead,
               payload |-> Bytes(a.pc64_uart_tx_buf, a.command_numBytesToRead),
               consumed |-> since,
               idle |-> ParserIdle(q),
               was |-> Job(a),
               now |-> Job(q),
               f |-> e.f, k |-> e.k ]
    IN [o EXCEPT
          !.prev2 = o.prev,
          !.prev = e.b,
          !.since = since,
          !.disp = IF a.command_processBuffer THEN Append(@, d) ELSE @,
          !.startedIdle = IF e.f > 0 /\ e.k = 1 /\ ParserIdle(p) THEN @ \cup {e.f} ELSE @,
          !.ended = IF lastOfFrame THEN @ \cup {e.f} ELSE @,
          !.endedIdle = IF lastOfFrame /\ ParserIdle(q) THEN @ \cup {e.f} ELSE @]

\* the wire elements of frame number f with bytes bs
Tagged(bs, f) == [k \in 1..Len(bs) |-> [b |-> bs[k], f |-> f, k |-> k]]

InitLink ==
    /\ mcu1 = Mcu1Globals
    /\ mcu2 = Mcu2Globals
    /\ wire12 = <<>>
    /\ sent12 = <<>>
    /\ obs2 = ObsInit
    /\ noise = 0
    /\ wire21 = <<>>
    /\ sent21 = <<>>
    /\ obs1 = ObsInit
    /\ stor = StorInit
    /\ pi = PiInit

(***************************************************************************)
(* Requests.  The console writes the four sector halves and then the        *)
(* second half of SD_COMMAND, or stores a title in the transfer buffer and  *)
(* writes the second half of SD_SELECT_ROM; the requester then sends the    *)
(* command frame.                                                           *)
(***************************************************************************)
Emit12(cmd, bs, req) ==
    /\ wire12' = wire12 \o Tagged(bs, Len(sent12) + 1)
    /\ sent12' = Append(sent12, [cmd |-> cmd, bytes |-> bs, req |-> req])

\* write_word carries the 16 data bits in its upper half
WithSector(s, S) ==
    pc64_set_sd_read_sector_part(
        pc64_set_sd_read_sector_part(
            pc64_set_sd_read_sector_part(
                pc64_set_sd_read_sector_part(s, 0, W32(S[1], 0)),
                1, W32(S[2], 0)),
            2, W32(S[3], 0)),
        3, W32(S[4], 0))

\* title t, NUL-terminated, stored at the start of the transfer buffer
WithTitle(s, t) ==
    LET old == s.pc64_uart_tx_buf
        buf == t \o << 0 >> \o SubSeq(old, Len(t) + 2, Len(old))
    IN pc64_set_sd_rom_selection([s EXCEPT !.pc64_uart_tx_buf = buf], W32(0, Len(t)))

pc64_send_sd_read_command(S) ==
    /\ todo > 0
    /\ todo' = todo - 1
    /\ LET s == WithSector(mcu1, S)
       IN /\ mcu1' = SdReadCommandFlags(s)
          /\ Emit12(COMMAND_SD_READ, SdReadCommandBytes(s), S)
    /\ obs1' = [obs1 EXCEPT !.raw = 0, !.sdRead = ~mcu1.romLoading]
    /\ UNCHANGED << mcu2, obs2, noise, wire21, sent21, disk, pi >>

pc64_send_load_new_rom_command(t) ==
    /\ todo > 0
    /\ todo' = todo - 1
    /\ LET s == WithTitle(mcu1, t)
       IN /\ mcu1' = LoadRomCommandFlags(s)
          /\ Emit12(COMMAND_LOAD_ROM, LoadRomCommandBytes(s), t)
    /\ obs1' = [obs1 EXCEPT !.raw = 0, !.sdRead = FALSE]
    /\ UNCHANGED << mcu2, obs2, noise, wire21, sent21, disk, pi >>

(***************************************************************************)
(* The transport delivers stray bytes to the storage controller.            *)
(***************************************************************************)
Noise12(bs) ==
    /\ noise < MaxNoise
    /\ noise' = noise + 1
    /\ wire12' = wire12 \o [k \in 1..Len(bs) |-> [b |-> bs[k], f |-> 0, k |-> 0]]
    /\ UNCHANGED << mcu1, mcu2, sent12, obs2, back, todo, disk, pi >>

(***************************************************************************)
(* mcu2_process_rx_buffer with n bytes in the receive queue.                *)
(***************************************************************************)
\* one iteration of the while loop on the wire element e; r holds the
\* globals s, the observer's record o, the count of bytes taken and
\* whether the loop was left early (this one never is)
Mcu2Step(r, e) ==
    LET a == Mcu2Accept(r.s, e.b)
        t == mcu2_process_rx_byte(r.s, e.b)
        last == e.f > 0 /\ e.k = Len(sent12[e.f].bytes)
    IN [s |-> t, o |-> Observe(r.o, r.s, a, t, e, last), used |-> r.used + 1, stop |-> FALSE]

\* the iterations for the queued elements q, in order
RECURSIVE Mcu2Fold(_, _)
Mcu2Fold(r, q) ==
    IF r.stop \/ q = <<>> THEN r
    ELSE IF Len(q) = 1 THEN Mcu2Step(r, q[1])
    ELSE LET h == Len(q) \div 2
         IN Mcu2Fold(Mcu2Fold(r, SubSeq(q, 1, h)), SubSeq(q, h + 1, Len(q)))

Mcu2Drain(s, o, q, n) ==
    LET r == Mcu2Fold([s |-> s, o |-> o, used |-> 0, stop |-> FALSE],
                      SubSeq(q, 1, Min(n, Len(q))))
    IN [s |-> r.s, o |-> r.o, q |-> SubSeq(q, r.used + 1, Len(q))]

mcu2_process_rx_buffer(n) ==
    /\ wire12 # <<>>
    /\ \E r \in { Mcu2Drain(mcu2, obs2, wire12, n) } :
          /\ mcu2' = r.s
          /\ obs2' = r.o
          /\ wire12' = r.q
    /\ UNCHANGED << mcu1, sent12, noise, back, todo, disk, pi >>

(***************************************************************************)
(* mcu1_process_rx_buffer with n bytes in the receive queue, followed by   *)
(* the core-1 loop's completion check.                                      *)
(***************************************************************************)
\* one iteration of the while loop on the wire element e; stop: the loop
\* was left by the break
Mcu1Step(r, e) ==
    LET s == r.s
        a == IF s.romLoading THEN Mcu1Accept(s, e.b) ELSE s
        t == mcu1_process_rx_byte(s, e.b)
        last == e.f > 0 /\ e.k = Len(sent21[e.f].bytes)
        seen == [ cmd |-> a.commandHeaderBuffer[0],
                  was |-> [rom |-> a.romLoading, ready |-> a.sendDataReady],
                  now |-> [rom |-> t.romLoading, ready |-> t.sendDataReady] ]
        o1 == Observe(r.o, s, a, t, e, last)
        o2 == IF s.romLoading
              THEN [o1 EXCEPT !.flags = IF a.command_processBuffer THEN Append(@, seen) ELSE @]
              ELSE [r.o EXCEPT !.raw = @ + 1]
    IN [s |-> t, o |-> o2, used |-> r.used + 1, stop |-> Mcu1Break(s, t)]

\* the iterations for the queued elements q, in order, up to a break
RECURSIVE Mcu1Fold(_, _)
Mcu1Fold(r, q) ==
    IF r.stop \/ q = <<>> THEN r
    ELSE IF Len(q) = 1 THEN Mcu1Step(r, q[1])
    ELSE LET h == Len(q) \div 2
         IN Mcu1Fold(Mcu1Fold(r, SubSeq(q, 1, h)), SubSeq(q, h + 1, Len(q)))

Mcu1Drain(s, o, q, n) ==
    LET r == Mcu1Fold([s |-> s, o |-> o, used |-> 0, stop |-> FALSE],
                      SubSeq(q, 1, Min(n, Len(q))))
    IN [s |-> r.s, o |-> r.o, q |-> SubSeq(q, r.used + 1, Len(q))]

mcu1_process_rx_buffer(n) ==
    /\ wire21 # <<>>
    /\ \E r \in { Mcu1Drain(mcu1, obs1, wire21, n) } :
          /\ mcu1' = Mcu1Completion(r.s)
          /\ obs1' = r.o
          /\ wire21' = r.q
    /\ UNCHANGED << mcu2, wire12, sent12, obs2, noise, sent21, todo, disk, pi >>

(***************************************************************************)
(* The storage controller's main task.                                      *)
(***************************************************************************)
Emit21(cmd, bs) ==
    /\ wire21' = wire21 \o Tagged(bs, Len(sent21) + 1)
    /\ sent21' = Append(sent21, [cmd |-> cmd, bytes |-> bs])

\* the frames the transport may deliver to the requester: the three the
\* storage controller sends during a load, and one with an id the
\* requester's dispatch does not know
Frames21 ==
    { [cmd |-> COMMAND_SET_EEPROM_TYPE, bytes |-> SetEepromTypeBytes],
      [cmd |-> COMMAND_LOAD_BACKUP_EEPROM, bytes |-> LoadBackupEepromBytes(EEPROM_TYPE_4K)],
      [cmd |-> COMMAND_ROM_LOADED, bytes |-> RomLoadedBytes],
      [cmd |-> COMMAND_SD_READ,
       bytes |-> << COMMAND_START, COMMAND_START2, COMMAND_SD_READ, 0, 1, COMMAND_ROM_LOADED >>] }

\* a stray frame the transport may deliver to the storage controller, with
\* an id its dispatch does not know
StrayFrames12 ==
    { << COMMAND_START, COMMAND_START2, COMMAND_ROM_LOADED, 0, 1, COMMAND_SD_READ >> }

\* char sd_selected_rom_title[256]
sizeof_sd_selected_rom_title == 256

\* a ROM-load frame whose payload is as long as the title's storage
LongTitleFrames ==
    { << COMMAND_START, COMMAND_START2, COMMAND_LOAD_ROM,
         sizeof_sd_selected_rom_title \div 256, sizeof_sd_selected_rom_title % 256 >>
      \o [i \in 1..sizeof_sd_selected_rom_title |-> 65] }

\* a frame whose declared payload is one byte longer than the transfer
\* buffer
OverlongFrames ==
    { << COMMAND_START, COMMAND_START2, COMMAND_ROM_LOADED,
         (sizeof_pc64_uart_tx_buf + 1) \div 256, (sizeof_pc64_uart_tx_buf + 1) % 256 >>
      \o [i \in 1..(sizeof_pc64_uart_tx_buf + 1) |-> 1] }

\* the transport delivers such a frame in place of one of the requests
Stray12(bs) ==
    /\ todo > 0
    /\ todo' = todo - 1
    /\ wire12' = wire12 \o [k \in 1..Len(bs) |-> [b |-> bs[k], f |-> 0, k |-> 0]]
    /\ UNCHANGED << mcu1, mcu2, sent12, obs2, noise, back, disk, pi >>

\* a frame arrives on the requester's transport during a load, the one
\* before it having been received
Frame21(fr) ==
    /\ Len(sent21) < MaxFrames
    /\ wire21 = <<>>
    /\ mcu1.romLoading
    /\ Emit21(fr.cmd, fr.bytes)
    /\ UNCHANGED << mcu1, mcu2, wire12, sent12, obs2, noise, obs1, todo, disk, pi >>

\* the frame of the last SD-read dispatch the parser's observer saw
LastSdRead(o) ==
    LET I == { i \in DOMAIN o.disp : o.disp[i].cmd = COMMAND_SD_READ }
    IN IF I = {} THEN 0 ELSE o.disp[CHOOSE i \in I : \A j \in I : j <= i].f

\* main_task_entry, one iteration of its loop that finds sendDataReady set:
\* send_sd_card_data, with the disk read succeeding (ok) or failing
main_task_entry(ok) ==
    /\ stor.pc = "idle"
    /\ mcu2.sendDataReady
    /\ \E r \in { send_data(mcu2, stor.diskReadBuffer, 1, ok) } :
          /\ mcu2' = [mcu2 EXCEPT !.sendDataReady = FALSE]
          /\ stor' = [stor EXCEPT
                        !.diskReadBuffer = r.diskReadBuffer,
                        !.sends = Append(@, [ f |-> LastSdRead(obs2),
                                              reads |-> r.reads,
                                              emitted |-> Len(r.out),
                                              ok |-> ok ])]
          /\ Emit21(0, r.out)
    /\ UNCHANGED << mcu1, wire12, sent12, obs2, noise, obs1, todo, card, pi >>

\* the sector counts send_data is called with
SectorCounts == { Zero32, W32(0, 1), W32(0, 2), W32(0, 3), W32(65535, 65535) }

\* send_data(sectorCount) up to its loop, lines 607-615, called as
\* send_sd_card_data calls it
send_data_entry(n) ==
    /\ stor.pc = "idle"
    /\ mcu2.sendDataReady
    /\ mcu2' = [mcu2 EXCEPT !.sendDataReady = FALSE]
    /\ stor' = [stor EXCEPT
                  !.pc = "send",
                  !.sd = [ asked |-> n, sectorCount |-> n,
                           sector |-> Sector64(mcu2.sectorToSendRegisters),
                           loopCount |-> 0, reads |-> <<>>, emitted |-> 0 ]]
    /\ UNCHANGED << mcu1, wire12, sent12, obs2, noise, back, todo, card, pi >>

\* one iteration of the do-while loop of send_data, lines 616-638
send_data_loop(ok) ==
    /\ stor.pc = "send"
    /\ stor.sd.loopCount < MaxSendLoops
    /\ LET buf == disk_read(stor.diskReadBuffer, stor.sd.sector, ok)
           sectorCount == Sub32(stor.sd.sectorCount, W32(0, 1))
       IN /\ stor' = [stor EXCEPT
                        !.diskReadBuffer = buf,
                        !.sd.loopCount = @ + 1,
                        !.sd.reads = Append(@, stor.sd.sector),
                        !.sd.sectorCount = sectorCount,
                        !.sd.emitted = @ + DISK_READ_BUFFER_SIZE,
                        !.pc = IF Le32(sectorCount, W32(0, 1)) THEN "idle" ELSE "send"]
          /\ Emit21(0, DiskBufferBytes(buf))
    /\ UNCHANGED << mcu1, mcu2, wire12, sent12, obs2, noise, obs1, todo, card, pi >>

\* The main loop (mcu2.c) starts the load a dispatched ROM-load frame asked
\* for.
RomLoadRequested == mcu2.startRomLoad

\* psram_set_cs(chip) as the observer of the load sees it
SetCs(st, chip, phase) ==
    [st EXCEPT !.psram_cs = chip,
               !.csLog = Append(@, [chip |-> chip, at |-> st.total, phase |-> phase])]

\* load_selected_rom and load_new_rom up to the load loop, lines 161-214;
\* panic() halts the controller
load_selected_rom ==
    /\ stor.pc = "idle"
    /\ RomLoadRequested
    /\ mcu2' = [mcu2 EXCEPT !.startRomLoad = FALSE, !.sd_is_busy = TRUE]
    /\ IF card.rom < 0
       THEN /\ stor' = [stor EXCEPT !.pc = "panic"]
            /\ UNCHANGED << wire21, sent21 >>
       ELSE /\ stor' = SetCs([stor EXCEPT !.pc = "loop",
                                          !.fsize = card.rom,
                                          !.len = 0,
                                          !.total = 0,
                                          !.currentPSRAMChip = START_ROM_LOAD_CHIP_INDEX,
                                          !.csLog = <<>>,
                                          !.writes = <<>>,
                                          !.readFailed = FALSE],
                             START_ROM_LOAD_CHIP_INDEX, "write")
            /\ LET e7 == SetEepromTypeBytes
                   eb == LoadBackupEepromBytes(mcu2.eeprom_type)
                   n == Len(sent21)
               IN IF card.eep
                  THEN /\ wire21' = wire21 \o Tagged(e7, n + 1) \o Tagged(eb, n + 2)
                       /\ sent21' = sent21 \o << [cmd |-> COMMAND_SET_EEPROM_TYPE, bytes |-> e7],
                                                 [cmd |-> COMMAND_LOAD_BACKUP_EEPROM, bytes |-> eb] >>
                  ELSE Emit21(COMMAND_SET_EEPROM_TYPE, e7)
    /\ UNCHANGED << mcu1, wire12, sent12, obs2, noise, obs1, todo, card, pi >>

\* one iteration of the load loop, lines 216-230, in which f_read has set
\* len
ReadChunk(st, len) ==
    LET addr == st.total - ((st.currentPSRAMChip - START_ROM_LOAD_CHIP_INDEX) * PSRAM_CHIP_CAPACITY_BYTES)
        total == st.total + len
        newChip == psram_addr_to_chip(total)
        written == [st EXCEPT !.len = len,
                              !.total = total,
                              !.writes = Append(@, [chip |-> st.psram_cs, addr |-> addr, len |-> len,
                                                    at |-> st.total])]
        switched == IF SwitchesChip(newChip, st.currentPSRAMChip)
                    THEN SetCs([written EXCEPT !.currentPSRAMChip = newChip], newChip, "write")
                    ELSE written
    IN [switched EXCEPT !.pc = IF len > 0 THEN "loop" ELSE "loaded"]

\* f_read reads the next sizeof(buf) bytes of the file, or what is left
LoadChunk(st) == ReadChunk(st, Min(sizeof_buf, st.fsize - st.total))

load_new_rom_loop ==
    /\ stor.pc = "loop"
    /\ stor' = LoadChunk(stor)
    /\ UNCHANGED << mcu1, mcu2, wire12, sent12, obs2, noise, back, todo, card, pi >>

\* an iteration of the load loop in which f_read fails: it has read no
\* byte, and its result fr is not looked at
load_new_rom_read_error ==
    /\ stor.pc = "loop"
    /\ stor' = [ReadChunk(stor, 0) EXCEPT !.readFailed = TRUE]
    /\ UNCHANGED << mcu1, mcu2, wire12, sent12, obs2, noise, back, todo, card, pi >>

RECURSIVE SetCsAll(_, _, _)
SetCsAll(st, chips, phase) ==
    IF chips = <<>> THEN st ELSE SetCsAll(SetCs(st, Head(chips), phase), Tail(chips), phase)

\* load_new_rom after the load loop, lines 231-329
load_new_rom_finish ==
    /\ stor.pc = "loaded"
    /\ stor' = [SetCsAll(stor, PostLoadChips, "post") EXCEPT !.pc = "idle"]
    /\ Emit21(COMMAND_ROM_LOADED, RomLoadedBytes)
    /\ UNCHANGED << mcu1, mcu2, wire12, sent12, obs2, noise, obs1, todo, card, pi >>

(***************************************************************************)
(* The dispatcher's steps.  Each takes the dispatcher from one blocking    *)
(* call (the bus word fetch or the busy wait on the channel) to the next.  *)
(***************************************************************************)
\* the bus words of a session: a read, a write, and addresses in every
\* region, in the ROM around the boundary between the first two chips
WriteWords == { W32(171, 1) }

AddressWords ==
    { CART_ROM_START,
      Add32(CART_ROM_START, PSRAM_CHIP_CAPACITY_BYTES - 2),
      Add32(CART_ROM_START, PSRAM_CHIP_CAPACITY_BYTES),
      CART_SRAM_START,
      PC64_BASE_ADDRESS_START,
      Add32(PC64_CIBASE_ADDRESS_START, PC64_REGISTER_MAGIC),
      Add32(PC64_CIBASE_ADDRESS_START, PC64_REGISTER_UART_TX),
      Add32(PC64_CIBASE_ADDRESS_START, PC64_REGISTER_SD_BUSY),
      Add32(PC64_CIBASE_ADDRESS_START, PC64_REGISTER_SD_SELECT_ROM),
      PC64_RAND_ADDRESS_START,
      ECHO_RANGE_END,
      W32(1280, 0) }

Words == { Zero32 } \cup WriteWords \cup AddressWords

\* the bus words of a session on the cartridge ROM: the Boot-Patch address
\* and the first address of the second chip
BootAddressWords ==
    { CART_ROM_START, Add32(CART_ROM_START, PSRAM_CHIP_CAPACITY_BYTES) }

BootWords == { Zero32 } \cup WriteWords \cup BootAddressWords

\* the bus words of a session on the Save-RAM: its first address and the
\* address of the last slot that line 308 can yield
SramAddressWords == { CART_SRAM_START, Add32(CART_SRAM_START, SRAM_SIZE_MASK - 1) }

SramWords == { Zero32 } \cup WriteWords \cup SramAddressWords

\* the bus words of a session on the sector registers: the address of the
\* first, the address of the second half of the sector count, the address
\* of the second half of SD_COMMAND, and write words with two data values
SectorAddressWords ==
    { Add32(PC64_CIBASE_ADDRESS_START, PC64_REGISTER_SD_READ_SECTOR0),
      Add32(PC64_CIBASE_ADDRESS_START, PC64_REGISTER_SD_READ_NUM_SECTORS + 2),
      Add32(PC64_CIBASE_ADDRESS_START, PC64_COMMAND_SD_READ + 2) }

SectorWords == { W32(57005, 1), W32(4660, 1) } \cup SectorAddressWords

\* the bus words of a session that selects a title: the first address of
\* the transfer buffer, the address of SD_SELECT_ROM, and write words with
\* the data "AB" and "C" NUL
SelectAddressWords ==
    { PC64_BASE_ADDRESS_START,
      Add32(PC64_CIBASE_ADDRESS_START, PC64_REGISTER_SD_SELECT_ROM) }

SelectWords == { W32(16706, 1), W32(17152, 1) } \cup SelectAddressWords

\* the bus words of a session on the control registers and the range next
\* to them
RegAddressWords ==
    { Add32(PC64_CIBASE_ADDRESS_START, PC64_COMMAND_SD_READ + 2),
      Add32(PC64_CIBASE_ADDRESS_START, PC64_REGISTER_SD_BUSY),
      Add32(PC64_CIBASE_ADDRESS_START, PC64_REGISTER_SD_SELECT_ROM + 2),
      ECHO_RANGE_END }

RegWords == { Zero32 } \cup WriteWords \cup RegAddressWords

\* the step's result becomes the state; its bytes go on the transport
PiStep(r) ==
    /\ pi' = r.p
    /\ mcu1' = r.s
    /\ wire12' = wire12 \o [k \in 1..Len(r.out) |-> [b |-> r.out[k], f |-> 0, k |-> 0]]
    /\ UNCHANGED << mcu2, sent12, obs2, noise, back, todo, disk >>

\* n64_pi_run up to the first word fetch, lines 123-233, with the console
\* out of reset; the transfer of the previous run's channel has ended
n64_pi_run ==
    /\ pi.pc = "off"
    /\ ~pi.dma.busy
    /\ pi' = [pi EXCEPT !.g_restart_pi_handler = FALSE,
                        !.g_currentMemoryArrayChip = START_ROM_LOAD_CHIP_INDEX,
                        !.claimed = @ + 1,
                        !.dma = DmaConfigured,
                        !.pc = "first"]
    /\ UNCHANGED << mcu1, mcu2, wire12, sent12, obs2, noise, back, todo, disk >>

\* line 233: the PIO program starts by sampling an address
FirstAddress(w) ==
    /\ pi.pc = "first"
    /\ pi.words < pi.budget
    /\ \E queued \in BOOLEAN : \E r \in { LoopHead(Get(pi, w), mcu1, queued) } : PiStep(r)

BootPatch(w) ==
    /\ pi.pc \in { "boot_1", "boot_2", "boot_3" }
    /\ pi.words < pi.budget
    /\ \E queued \in BOOLEAN : \E r \in { BootPatchWord(pi, mcu1, w, queued) } : PiStep(r)

\* lines 289-290: the busy wait ends and the channel is triggered
BootPatchPoll ==
    /\ pi.pc = "boot_poll"
    /\ ~pi.dma.busy
    /\ pi' = [DmaTrigger(pi, "boot_patch", TRUE, FALSE) EXCEPT !.pc = "boot_3"]
    /\ UNCHANGED << mcu1, mcu2, wire12, sent12, obs2, noise, back, todo, disk >>

SaveRam(w) ==
    /\ pi.pc = "sram"
    /\ pi.words < pi.budget
    /\ \E queued \in BOOLEAN : \E r \in { SramWord(pi, mcu1, w, queued) } : PiStep(r)

\* lines 362-363: the busy wait ends and the channel is triggered
RomPoll ==
    /\ pi.pc = "rom_poll"
    /\ ~pi.dma.busy
    /\ pi' = [DmaTrigger(pi, "region_entry", TRUE, FALSE) EXCEPT !.pc = "rom"]
    /\ UNCHANGED << mcu1, mcu2, wire12, sent12, obs2, noise, back, todo, disk >>

Rom(w) ==
    /\ pi.pc = "rom"
    /\ pi.words < pi.budget
    /\ \E queued \in BOOLEAN : \E r \in { RomWord(pi, mcu1, w, queued) } : PiStep(r)

PeripheralBase(w) ==
    /\ pi.pc = "base"
    /\ pi.words < pi.budget
    /\ \E queued \in BOOLEAN : \E r \in { BaseWord(pi, mcu1, w, queued) } : PiStep(r)

ControlRegisters(w) ==
    /\ pi.pc \in { "cibase", "cibase_magic", "cibase_uart_tx", "cibase_rand_seed" }
    /\ pi.words < pi.budget
    /\ \E queued \in BOOLEAN : \E r \in { CiWord(pi, mcu1, w, queued) } : PiStep(r)

RandomNumber(w) ==
    /\ pi.pc = "rand"
    /\ pi.words < pi.budget
    /\ \E queued \in BOOLEAN : \E r \in { RandWord(pi, mcu1, w, queued) } : PiStep(r)

\* after the jump to its start the PIO program samples an address
Unmapped(w) ==
    /\ pi.pc \in { "echo_1", "echo_2", "unmapped_1", "unmapped_2" }
    /\ pi.pc \in { "echo_2", "unmapped_2" } => IsAddress(w)
    /\ pi.words < pi.budget
    /\ \E queued \in BOOLEAN : \E r \in { UnmappedWord(pi, mcu1, w, queued) } : PiStep(r)

\* The channel's transfer ends: one half-word has gone from the memory
\* array to the transfer buffer, read from the chip selected when the
\* transfer was triggered or from the one selected now.
DmaTransferDone ==
    /\ pi.dma.busy
    /\ \E chip \in { pi.dma.chip, pi.psram_cs } :
          mcu1' = [mcu1 EXCEPT !.pc64_uart_tx_buf =
                      StoreWord(@, pi.dma.write_addr, PsramWord(chip, pi.dma.read_addr))]
    /\ pi' = [pi EXCEPT !.dma = [ busy |-> pi.dma.queued,
                                  queued |-> FALSE,
                                  read_addr |-> pi.dma.read_addr + 1,
                                  write_addr |-> pi.dma.write_addr + 1,
                                  chip |-> pi.psram_cs ]]
    /\ UNCHANGED << mcu2, wire12, sent12, obs2, noise, back, todo, disk >>

\* multicore_fifo_push_blocking at line 553 or 594 returns once the queue
\* has room; lines 601-609 follow
FifoPush ==
    /\ pi.pc = "fifo_push"
    /\ Len(pi.fifo) < FifoDepth
    /\ pi' = LoopEnd(Advance([pi EXCEPT !.fifo = Append(@, pi.pushing),
                                        !.pushing = "none",
                                        !.pc = "cibase"], 2, "single"))
    /\ UNCHANGED << mcu1, mcu2, wire12, sent12, obs2, noise, back, todo, disk >>

\* The requester's other core takes a notification off the queue and begins
\* the job: it sends the SD-read or the ROM-load command frame.
Core1Notification ==
    /\ pi.fifo # <<>>
    /\ pi' = [pi EXCEPT !.fifo = Tail(@)]
    /\ IF Head(pi.fifo) = "CORE1_SEND_SD_READ_CMD"
       THEN /\ mcu1' = SdReadCommandFlags(mcu1)
            /\ Emit12(COMMAND_SD_READ, SdReadCommandBytes(mcu1),
                      [i \in 1..4 |-> Hi16(mcu1.sd_sector_registers[i - 1])])
            /\ obs1' = [obs1 EXCEPT !.raw = 0, !.sdRead = ~mcu1.romLoading]
       ELSE /\ mcu1' = LoadRomCommandFlags(mcu1)
            /\ Emit12(COMMAND_LOAD_ROM, LoadRomCommandBytes(mcu1), mcu1.sd_selected_rom_title)
            /\ obs1' = [obs1 EXCEPT !.raw = 0, !.sdRead = FALSE]
    /\ UNCHANGED << mcu2, obs2, noise, wire21, sent21, todo, disk >>

\* The restart signal is raised (by the requester's other core, mcu1.c).
RaiseRestart ==
    /\ pi.restarts < MaxRestarts
    /\ ~pi.g_restart_pi_handler
    /\ pi' = [pi EXCEPT !.g_restart_pi_handler = TRUE, !.restarts = @ + 1]
    /\ UNCHANGED << mcu1, mcu2, wire12, sent12, obs2, noise, back, todo, disk >>

(***************************************************************************)
(* The specifications.                                                      *)
(***************************************************************************)
\* the bytes one call of a receive handler finds in its queue
RxBurst == 128

\* the requests of a session
MaxRequests == 1

\* the cards of a session: a ROM of half a chunk with a save file, a card
\* without the ROM asked for
CardsLink ==
    { [rom |-> sizeof_buf \div 2, eep |-> TRUE],
      [rom |-> -1, eep |-> FALSE] }

\* the cards of a load: ROM sizes around the chip boundaries
RomSizes ==
    { k * (sizeof_buf \div 2) : k \in 0..(2 * ChunksPerChip * (NumChips + 1)) }

Cards == { [rom |-> n, eep |-> e] : n \in RomSizes, e \in BOOLEAN }

InitParser2 ==
    /\ InitLink
    /\ todo = MaxFrames
    /\ card = [rom |-> -1, eep |-> FALSE]

NextParser2 ==
    \/ \E S \in Sectors : pc64_send_sd_read_command(S)
    \/ \E t \in Titles : pc64_send_load_new_rom_command(t)
    \/ \E bs \in NoiseBursts : Noise12(bs)
    \/ mcu2_process_rx_buffer(1)

SpecParser2 == InitParser2 /\ [][NextParser2]_vars

InitParser1 ==
    /\ InitLink
    /\ todo = MaxRequests
    /\ card = [rom |-> -1, eep |-> FALSE]

NextParser1 ==
    \/ \E S \in Sectors : pc64_send_sd_read_command(S)
    \/ \E t \in Titles : pc64_send_load_new_rom_command(t)
    \/ \E fr \in Frames21 : Frame21(fr)
    \/ mcu1_process_rx_buffer(RxBurst)

SpecParser1 == InitParser1 /\ [][NextParser1]_vars

\* both parsers at work, the console making its requests at any time
NextParsers ==
    \/ \E S \in Sectors : pc64_send_sd_read_command(S)
    \/ \E t \in Titles : pc64_send_load_new_rom_command(t)
    \/ mcu2_process_rx_buffer(RxBurst)
    \/ \E fr \in Frames21 : Frame21(fr)
    \/ mcu1_process_rx_buffer(RxBurst)

SpecParsers == InitParser2 /\ [][NextParsers]_vars

\* both parsers at work, each also receiving a frame with an id it does
\* not know; a handler runs when the bytes in its queue have all arrived
NextDispatch ==
    \/ \E S \in Sectors \ { <<0, 0, 0, 1000>> } : pc64_send_sd_read_command(S)
    \/ \E t \in Titles \ { <<>>, <<65>> } : pc64_send_load_new_rom_command(t)
    \/ \E bs \in StrayFrames12 : Stray12(bs)
    \/ mcu2_process_rx_buffer(Len(wire12))
    \/ \E fr \in Frames21 : Frame21(fr)
    \/ mcu1_process_rx_buffer(Len(wire21))

SpecDispatch == InitParser2 /\ [][NextDispatch]_vars

\* the storage controller receives the requester's frames and a ROM-load
\* frame with a long payload
NextTitle ==
    \/ \E S \in Sectors : pc64_send_sd_read_command(S)
    \/ \E t \in Titles : pc64_send_load_new_rom_command(t)
    \/ \E bs \in LongTitleFrames : Stray12(bs)
    \/ mcu2_process_rx_buffer(RxBurst)

SpecTitle == InitParser2 /\ [][NextTitle]_vars

Init ==
    /\ InitLink
    /\ todo = MaxRequests
    /\ card \in CardsLink

Next ==
    \/ \E S \in Sectors : pc64_send_sd_read_command(S)
    \/ \E t \in Titles : pc64_send_load_new_rom_command(t)
    \/ mcu2_process_rx_buffer(RxBurst)
    \/ \E ok \in BOOLEAN : main_task_entry(ok)
    \/ load_selected_rom
    \/ load_new_rom_loop
    \/ load_new_rom_read_error
    \/ load_new_rom_finish
    \/ mcu1_process_rx_buffer(RxBurst)

Spec == Init /\ [][Next]_vars

InitRomLoad ==
    /\ InitLink
    /\ todo = 1
    /\ card \in Cards

NextRomLoad ==
    \/ \E t \in Titles : pc64_send_load_new_rom_command(t)
    \/ mcu2_process_rx_buffer(RxBurst)
    \/ load_selected_rom
    \/ load_new_rom_loop
    \/ load_new_rom_finish
    \/ mcu1_process_rx_buffer(RxBurst)

SpecRomLoad == InitRomLoad /\ [][NextRomLoad]_vars

\* a load on a storage controller whose EEPROM type is either of the two,
\* from a card with a small ROM or none, with or without a save file
EepromCards == { c \in Cards \cup CardsLink : c.rom <= sizeof_buf }

InitEeprom ==
    /\ mcu1 = Mcu1Globals
    /\ \E e \in { EEPROM_TYPE_4K, EEPROM_TYPE_16K } :
          mcu2 = [Mcu2Globals EXCEPT !.eeprom_type = e]
    /\ wire12 = <<>>
    /\ sent12 = <<>>
    /\ obs2 = ObsInit
    /\ noise = 0
    /\ wire21 = <<>>
    /\ sent21 = <<>>
    /\ obs1 = ObsInit
    /\ stor = StorInit
    /\ pi = PiInit
    /\ todo = 1
    /\ card \in EepromCards

SpecEeprom == InitEeprom /\ [][NextRomLoad]_vars

\* send_data called with any sector count for the requests received
NextSendData ==
    \/ \E S \in Sectors : pc64_send_sd_read_command(S)
    \/ mcu2_process_rx_buffer(RxBurst)
    \/ \E n \in SectorCounts : send_data_entry(n)
    \/ \E ok \in BOOLEAN : send_data_loop(ok)

SpecSendData == InitParser2 /\ [][NextSendData]_vars

\* the storage controller receives the requester's SD-read frames and a
\* frame with a long payload
NextOverlong ==
    \/ \E S \in Sectors : pc64_send_sd_read_command(S)
    \/ \E bs \in OverlongFrames : Stray12(bs)
    \/ mcu2_process_rx_buffer(RxBurst)

SpecOverlong == InitParser2 /\ [][NextOverlong]_vars

\* SD reads served while the console goes on asking
NextOverlap ==
    \/ \E S \in Sectors : pc64_send_sd_read_command(S)
    \/ mcu2_process_rx_buffer(RxBurst)
    \/ main_task_entry(TRUE)
    \/ mcu1_process_rx_buffer(RxBurst)

SpecOverlap == InitParser2 /\ [][NextOverlap]_vars

InitPi ==
    /\ InitLink
    /\ todo = 0
    /\ card = [rom |-> -1, eep |-> FALSE]

NextPi ==
    \/ n64_pi_run
    \/ \E w \in AddressWords : FirstAddress(w)
    \/ \E w \in Words : BootPatch(w)
    \/ BootPatchPoll
    \/ \E w \in Words : SaveRam(w)
    \/ RomPoll
    \/ \E w \in Words : Rom(w)
    \/ \E w \in Words : PeripheralBase(w)
    \/ \E w \in Words : ControlRegisters(w)
    \/ \E w \in Words : RandomNumber(w)
    \/ \E w \in Words : Unmapped(w)
    \/ DmaTransferDone
    \/ Core1Notification
    \/ RaiseRestart

SpecPi == InitPi /\ [][NextPi]_vars

InitBoot ==
    /\ mcu1 = Mcu1Globals
    /\ mcu2 = Mcu2Globals
    /\ wire12 = <<>>
    /\ sent12 = <<>>
    /\ obs2 = ObsInit
    /\ noise = 0
    /\ wire21 = <<>>
    /\ sent21 = <<>>
    /\ obs1 = ObsInit
    /\ stor = StorInit
    /\ pi = [PiInit EXCEPT !.budget = MaxBootWords]
    /\ todo = 0
    /\ card = [rom |-> -1, eep |-> FALSE]

NextBoot ==
    \/ n64_pi_run
    \/ \E w \in BootAddressWords : FirstAddress(w)
    \/ \E w \in BootWords : BootPatch(w)
    \/ BootPatchPoll
    \/ RomPoll
    \/ \E w \in BootWords : Rom(w)
    \/ DmaTransferDone
    \/ RaiseRestart

SpecBoot == InitBoot /\ [][NextBoot]_vars

InitSram ==
    /\ mcu1 = Mcu1Globals
    /\ mcu2 = Mcu2Globals
    /\ wire12 = <<>>
    /\ sent12 = <<>>
    /\ obs2 = ObsInit
    /\ noise = 0
    /\ wire21 = <<>>
    /\ sent21 = <<>>
    /\ obs1 = ObsInit
    /\ stor = StorInit
    /\ pi = [PiInit EXCEPT !.budget = MaxSramWords]
    /\ todo = 0
    /\ card = [rom |-> -1, eep |-> FALSE]

NextSram ==
    \/ n64_pi_run
    \/ \E w \in SramAddressWords : FirstAddress(w)
    \/ \E w \in SramWords : SaveRam(w)
    \/ RaiseRestart

SpecSram == InitSram /\ [][NextSram]_vars

InitSector ==
    /\ mcu1 = Mcu1Globals
    /\ mcu2 = Mcu2Globals
    /\ wire12 = <<>>
    /\ sent12 = <<>>
    /\ obs2 = ObsInit
    /\ noise = 0
    /\ wire21 = <<>>
    /\ sent21 = <<>>
    /\ obs1 = ObsInit
    /\ stor = StorInit
    /\ pi = [PiInit EXCEPT !.budget = MaxSectorWords]
    /\ todo = 0
    /\ card = [rom |-> -1, eep |-> FALSE]

NextSector ==
    \/ n64_pi_run
    \/ \E w \in SectorAddressWords : FirstAddress(w)
    \/ \E w \in SectorWords : ControlRegisters(w)
    \/ FifoPush
    \/ Core1Notification
    \/ mcu2_process_rx_buffer(RxBurst)
    \/ main_task_entry(TRUE)

SpecSector == InitSector /\ [][NextSector]_vars

InitSelect ==
    /\ mcu1 = Mcu1Globals
    /\ mcu2 = Mcu2Globals
    /\ wire12 = <<>>
    /\ sent12 = <<>>
    /\ obs2 = ObsInit
    /\ noise = 0
    /\ wire21 = <<>>
    /\ sent21 = <<>>
    /\ obs1 = ObsInit
    /\ stor = StorInit
    /\ pi = [PiInit EXCEPT !.budget = MaxSelectWords]
    /\ todo = 0
    /\ card = [rom |-> -1, eep |-> FALSE]

NextSelect ==
    \/ n64_pi_run
    \/ \E w \in SelectAddressWords : FirstAddress(w)
    \/ \E w \in SelectWords : PeripheralBase(w)
    \/ \E w \in SelectWords : ControlRegisters(w)
    \/ FifoPush
    \/ Core1Notification

SpecSelect == InitSelect /\ [][NextSelect]_vars

InitRegs ==
    /\ mcu1 = Mcu1Globals
    /\ mcu2 = Mcu2Globals
    /\ wire12 = <<>>
    /\ sent12 = <<>>
    /\ obs2 = ObsInit
    /\ noise = 0
    /\ wire21 = <<>>
    /\ sent21 = <<>>
    /\ obs1 = ObsInit
    /\ stor = StorInit
    /\ pi = [PiInit EXCEPT !.budget = MaxRegWords]
    /\ todo = 0
    /\ card = [rom |-> -1, eep |-> FALSE]

NextRegs ==
    \/ n64_pi_run
    \/ \E w \in RegAddressWords : FirstAddress(w)
    \/ \E w \in RegWords : ControlRegisters(w)
    \/ \E w \in RegWords : Unmapped(w)
    \/ FifoPush
    \/ Core1Notification
    \/ RaiseRestart

SpecRegs == InitRegs /\ [][NextRegs]_vars


(***************************************************************************)
(* The command parsers.                                                     *)
(***************************************************************************)
\* the dispatches an observer has seen for frame f
DispatchesOf(o, f) == { i \in DOMAIN o.disp : o.disp[i].f = f }

\* the frames received to their last byte whose first byte met an idle parser
RoundTrips(o, sent, cmd) ==
    { f \in o.ended \cap o.startedIdle : sent[f].cmd = cmd }

\* C1: the 17-byte SD-read frame DE AD 72 00 0C + 12 payload bytes, fed byte
\* by byte to the storage controller's parser starting from idle, is
\* dispatched exactly once, on its last byte, as command 0x72 with the 12
\* payload bytes intact, and the parser is idle afterwards.
C1_SdReadFrameRoundTrip ==
    \A f \in RoundTrips(obs2, sent12, COMMAND_SD_READ) :
        LET bs == sent12[f].bytes
        IN /\ Len(bs) = 17
           /\ SubSeq(bs, 1, 5) = << COMMAND_START, COMMAND_START2, COMMAND_SD_READ, 0, 12 >>
           /\ Cardinality(DispatchesOf(obs2, f)) = 1
           /\ \A i \in DispatchesOf(obs2, f) :
                 /\ obs2.disp[i].k = 17
                 /\ obs2.disp[i].cmd = COMMAND_SD_READ
                 /\ obs2.disp[i].len = 12
                 /\ obs2.disp[i].payload = SubSeq(bs, 6, 17)
           /\ f \in obs2.endedIdle

\* an SD-read frame whose payload itself holds the sentinel bytes went round
C1_Witness ==
    \E f \in RoundTrips(obs2, sent12, COMMAND_SD_READ) :
        /\ sent12[f].bytes[6] = COMMAND_START
        /\ sent12[f].bytes[7] = COMMAND_START2
        /\ DispatchesOf(obs2, f) # {}

\* C2: on both parsers a frame whose length field is zero is dispatched as
\* soon as the third header byte is received: no byte after the header is
\* consumed for it, and the parser never waits for payload of length zero.
C2_ZeroLengthDispatchedAtHeader ==
    /\ \A i \in DOMAIN obs2.disp : obs2.disp[i].len = 0 => obs2.disp[i].consumed = 0
    /\ \A i \in DOMAIN obs1.disp : obs1.disp[i].len = 0 => obs1.disp[i].consumed = 0
    /\ ~(mcu2.receivingData /\ mcu2.command_numBytesToRead = 0)
    /\ ~(mcu1.receivingData /\ mcu1.command_numBytesToRead = 0)

\* C3: a parser is at the start of a header only when the last two bytes
\* it received were 0xDE immediately followed by 0xAD; in particular the
\* sequence 0xDE, x, 0xAD with x # 0xAD does not enter the header state.
AtHeaderStart(p) == p.isReadingCommandHeader /\ p.command_headerBufferIndex = 0

C3_HeaderOnlyAfterAdjacentSentinels ==
    /\ AtHeaderStart(mcu2) => obs2.prev2 = COMMAND_START /\ obs2.prev = COMMAND_START2
    /\ AtHeaderStart(mcu1) => obs1.prev2 = COMMAND_START /\ obs1.prev = COMMAND_START2

(***************************************************************************)
(* The SD job: requests, their service and their completion.                *)
(***************************************************************************)
\* C4: from the moment pc64_send_sd_read_command or
\* pc64_send_load_new_rom_command is called until the requester flags the
\* completion (sendDataReady), sd_is_busy is true.
C4_BusyUntilCompletion ==
    (sent12 # <<>> /\ ~mcu1.sendDataReady) => mcu1.sd_is_busy

\* a sector read is under way: part of its bytes has arrived
C4_Witness ==
    /\ mcu1.sd_is_busy
    /\ ~mcu1.sendDataReady
    /\ obs1.sdRead
    /\ obs1.raw > 0
    /\ obs1.raw < SD_CARD_SECTOR_SIZE

\* the 64-bit sector number the console asked for with the halves S
SectorOf(S) == << W32(S[1], S[2]), W32(S[3], S[4]) >>

\* the SD-read dispatches the storage controller's parser made
SdReadDispatches == { i \in DOMAIN obs2.disp : obs2.disp[i].cmd = COMMAND_SD_READ }

InWritePhase(e) == e.phase = "write"

WriteSelections ==
    LET w == SelectSeq(stor.csLog, InWritePhase)
    IN [k \in 1..Len(w) |-> [chip |-> w[k].chip, at |-> w[k].at]]

\* C7: loading a file of exactly NumChips (3) times the chip capacity
\* selects a chip exactly NumChips times in the write phase, at the offsets
\* 0, CAP, 2*CAP in turn; there is no selection at 3*CAP.
C7_ThreeSelections ==
    (stor.pc \in {"loaded", "idle"} /\ stor.csLog # <<>>
        /\ stor.fsize = NumChips * PSRAM_CHIP_CAPACITY_BYTES) =>
    WriteSelections =
        [k \in 1..NumChips |-> [chip |-> START_ROM_LOAD_CHIP_INDEX + k - 1,
                               at |-> (k - 1) * PSRAM_CHIP_CAPACITY_BYTES]]

\* such a load has run to its end
C7_Witness ==
    /\ stor.pc = "idle"
    /\ stor.fsize = NumChips * PSRAM_CHIP_CAPACITY_BYTES
    /\ stor.total = stor.fsize
    /\ Len(stor.csLog) > NumChips

\* C8: every served single half-word read or write leaves the cursor 2
\* above where the word found it, every completed two-half operation
\* (UART_TX write, RAND_SEED write, MAGIC read) leaves it 4 above where its
\* first half found it, and a word that is a read or a write, not an
\* address, never leaves the cursor lower than it found it.
C8_CursorArithmetic ==
    /\ pi.op.kind = "single" => pi.last_addr = Add32(pi.op.prev, 2)
    /\ pi.op.kind = "dual" => pi.last_addr = Add32(pi.op.from, 4)
    /\ pi.op.took \in { "read", "write" } => Le32(pi.op.prev, pi.last_addr)

\* C9: at every trigger of the ROM transfer channel the chip selected is
\* the chip of the cartridge address the triggered transfer is to fetch.
C9_ChipSelectedBeforeTransfer ==
    pi.trig.site # "none" => pi.trig.chip = psram_addr_to_chip(pi.trig.a)

\* C10: every trigger of the ROM transfer channel directly follows a poll
\* that found the channel idle, and is never issued while a transfer is in
\* flight.
C10_TriggerAfterIdlePoll ==
    pi.trig.site # "none" => pi.trig.polled /\ ~pi.trig.busy

(***************************************************************************)
(* The dispatcher's control flow.                                           *)
(***************************************************************************)
\* n64_pi_run has returned: it ran and is past its teardown
Returned(p) == p.pc = "off" /\ p.claimed > 0

\* C11: n64_pi_run leaves its dispatch loop and tears the bus-sampling
\* engine down only with the restart signal true; as long as the signal
\* has never been raised it does not return, whatever words the bus sends.
C11_ReturnsOnlyOnRestart ==
    /\ Returned(pi) => pi.g_restart_pi_handler
    /\ pi.restarts = 0 => ~Returned(pi)

\* the dispatcher has served words and returned on the signal
C11_Witness ==
    /\ Returned(pi)
    /\ pi.g_restart_pi_handler
    /\ pi.words >= 2

\* where the dispatcher waits for a word at the head of a region's inner
\* loop: lines 321, 368, 442, 470, 627
RegionLoops == { "sram", "rom", "base", "cibase", "rand" }

\* C12: in every region inner loop (Save-RAM, ROM, Peripheral-Base,
\* Control-Register Block, Random-Number) the restart signal is polled on
\* every iteration: when the signal is set, the word the loop takes next,
\* whatever its kind, is the last one and n64_pi_run returns after it.
C12_CancellationInEveryRegion ==
    [][ (pi.g_restart_pi_handler /\ pi.pc \in RegionLoops /\ pi'.words = pi.words + 1)
            => Returned(pi') ]_vars

\* C13: the dispatcher neither performs nor waits on transport I/O: it puts
\* no byte on the transport itself, and it never waits in a push for the
\* other execution context to take a notification off the queue.
C13_NoTransportNoBlocking ==
    /\ pi.io = 0
    /\ pi.pc # "fifo_push"

\* the region of address a by the priority order Boot-Patch, Save-RAM,
\* Cartridge ROM, Peripheral-Base, Control-Register Block, Random-Number
\* Peripheral, else Unmapped, named by where its handler starts
RegionOf(a) ==
    IF a = CART_ROM_START THEN "boot_1"
    ELSE IF InRange(a, CART_SRAM_START, CART_SRAM_END) THEN "sram"
    ELSE IF InRange(a, CART_ROM_START, CART_ROM_END) THEN "rom_poll"
    ELSE IF InRange(a, PC64_BASE_ADDRESS_START, PC64_BASE_ADDRESS_END) THEN "base"
    ELSE IF InRange(a, PC64_CIBASE_ADDRESS_START, PC64_CIBASE_ADDRESS_END) THEN "cibase"
    ELSE IF InRange(a, PC64_RAND_ADDRESS_START, PC64_RAND_ADDRESS_END) THEN "rand"
    ELSE "unmapped_1"

\* C14: every address taken at the head of the outer loop is handled by
\* the first matching region in the order Boot-Patch (0x10000000 only),
\* Save-RAM, Cartridge ROM, Peripheral-Base, Control-Register Block,
\* Random-Number Peripheral, else Unmapped, and by no other branch.
C14_RegionClassification ==
    pi.cls.to # "none" => pi.cls.to = RegionOf(pi.cls.a)

\* where the dispatcher waits for a word inside a region's inner loop: at
\* its head or, in the Control-Register Block, for the second half of a
\* MAGIC read (line 482), a UART_TX write (line 536) or a RAND_SEED write
\* (line 542)
InnerLoopFetches == RegionLoops \cup { "cibase_magic", "cibase_uart_tx", "cibase_rand_seed" }

\* C15: a word that is neither a read nor a write, taken inside a region's
\* inner loop (also in place of the second half of a MAGIC read), ends the
\* loop and is the address the outer loop classifies next (unless the
\* restart signal ends the run there).
C15_NoWordLost ==
    [][ (pi'.words = pi.words + 1 /\ pi.pc \in InnerLoopFetches /\ pi'.op.took = "address")
            => \/ Returned(pi')
               \/ /\ pi'.cls.a = pi'.op.w
                  /\ pi'.last_addr = pi'.op.w
                  /\ pi'.pc = pi'.cls.to ]_vars

\* C16: an address that matches no mapped region gets no reply word; the
\* dispatcher takes exactly one pending word without serving it, makes the
\* bus-sampling engine jump to its start, and classifies the word sampled
\* after that as a new address at the loop head.
C16_UnmappedAccess ==
    [][ /\ (pi'.cls # pi.cls /\ RegionOf(pi'.cls.a) = "unmapped_1")
            => /\ pi'.pc \in { "unmapped_1", "echo_1" }
               /\ pi'.txf = <<>>
        /\ (pi.pc \in { "unmapped_1", "echo_1" } /\ pi'.words = pi.words + 1)
            => /\ pi'.pc \in { "unmapped_2", "echo_2" }
               /\ pi'.op.kind = "jump"
               /\ pi'.txf = <<>>
               /\ pi'.last_addr = pi.last_addr
               /\ pi'.cls = pi.cls
        /\ (pi.pc \in { "unmapped_2", "echo_2" } /\ pi'.words = pi.words + 1)
            => \/ Returned(pi')
               \/ /\ pi'.cls.a = pi'.op.w
                  /\ pi'.last_addr = pi'.op.w
                  /\ pi'.pc = pi'.cls.to
        /\ (pi.pc \in { "unmapped_1", "echo_1", "unmapped_2", "echo_2" }
              /\ pi'.words = pi.words)
            => pi'.pc = pi.pc /\ pi'.txf = pi.txf ]_vars

\* the word pending after an unmapped address has been taken and dropped,
\* and the engine sent back to its start
C16_Witness ==
    /\ RegionOf(pi.cls.a) = "unmapped_1"
    /\ pi.pc \in { "unmapped_2", "echo_2" }
    /\ pi.op.kind = "jump"
    /\ pi.op.took = "read"
    /\ pi.txf = <<>>

(***************************************************************************)
(* Failures of the storage.                                                 *)
(***************************************************************************)
\* C17: a failed mount, open, file read or block read aborts the job: the
\* service of an SD read whose block read failed puts no byte on the
\* transport, a load one of whose file reads failed emits no ROM-loaded
\* frame, and after a failed mount or open the controller does nothing
\* more.
C17_StorageFailuresFatal ==
    [][ /\ (Len(stor'.sends) > Len(stor.sends) /\ ~stor'.sends[Len(stor'.sends)].ok)
            => stor'.sends[Len(stor'.sends)].emitted = 0
        /\ (stor.readFailed /\ Len(sent21') > Len(sent21))
            => sent21'[Len(sent21')].cmd # COMMAND_ROM_LOADED
        /\ stor.pc = "panic" => (stor' = stor /\ sent21' = sent21) ]_vars

(***************************************************************************)
(* The completion of a ROM load on the requester.                           *)
(***************************************************************************)
\* the dispatches of the requester's parser made in the step
NewDispatches == { i \in DOMAIN obs1'.flags : i > Len(obs1.flags) }

CiReadAt(reg) ==
    /\ pi.pc = "cibase"
    /\ pi'.words = pi.words + 1
    /\ pi'.op.took = "read"
    /\ pi.last_addr = Add32(PC64_CIBASE_ADDRESS_START, reg)

\* C19: a read served at SD_BUSY puts the one reply word 0x0000, a read
\* served at SD_BUSY+2 puts the one reply word 0x0001 if sd_is_busy is true
\* when it is served and 0x0000 if not, and each advances the cursor by 2.
C19_SdBusyRead ==
    [][ /\ CiReadAt(PC64_REGISTER_SD_BUSY)
            => /\ pi'.txf = << 0 >>
               /\ pi'.last_addr = Add32(pi.last_addr, 2)
        /\ CiReadAt(PC64_REGISTER_SD_BUSY + 2)
            => /\ pi'.txf = << IF mcu1.sd_is_busy THEN 1 ELSE 0 >>
               /\ pi'.last_addr = Add32(pi.last_addr, 2) ]_vars

\* the second half of SD_BUSY has been read while the cartridge was busy
C19_Witness ==
    /\ pi.op.took = "read"
    /\ pi.op.prev = Add32(PC64_CIBASE_ADDRESS_START, PC64_REGISTER_SD_BUSY + 2)
    /\ pi.last_addr = Add32(PC64_CIBASE_ADDRESS_START, PC64_REGISTER_SD_BUSY + 4)
    /\ pi.txf = << 1 >>
    /\ mcu1.sd_is_busy

(***************************************************************************)
(* Boot-Patch.                                                              *)
(***************************************************************************)
\* the half-word the memory array holds for cartridge address a
RomHalfWord(a) ==
    LET chip == psram_addr_to_chip(Int32(a))
    IN PsramWord(chip, RomReadAddr(a, chip))

\* the n-th word after the address 0x10000000 is taken, all words since
\* the address being reads
BootPatchRead(n) ==
    /\ pi.cls.to = "boot_1"
    /\ pi.pc \in { "boot_1", "boot_2", "boot_3" }
    /\ pi.reads = n - 1
    /\ pi'.reads = n

\* C20: after the address 0x10000000 the first three read words are
\* answered with 0x8037, with 0x1640 and with the half-word the ROM holds
\* at 0x10000004, and the third leaves the cursor at 0x10000006 in the
\* ROM loop, whatever the bus did before.
C20_BootPatchFallThrough ==
    [][ /\ BootPatchRead(1) => pi'.txf = << BOOT_PATCH_HIGH >>
        /\ BootPatchRead(2) => pi'.txf = << BOOT_PATCH_LOW >>
        /\ BootPatchRead(3)
            => /\ pi'.txf = << RomHalfWord(Add32(CART_ROM_START, 4)) >>
               /\ pi'.last_addr = Add32(CART_ROM_START, 6)
               /\ pi'.pc = "rom" ]_vars

(***************************************************************************)
(* The ROM loop.                                                            *)
(***************************************************************************)
\* a read or a write is served in the ROM loop entered by the ROM branch
RomLoopServes(kinds) ==
    /\ pi.pc = "rom"
    /\ pi.cls.to = "rom_poll"
    /\ pi'.words = pi.words + 1
    /\ pi'.op.took \in kinds

\* C21: in a ROM loop entered at address A every read is answered with the
\* half-word the ROM holds at the cursor, the read index of the prefetch
\* buffer stays inside the buffer, and after every read or write the read
\* index and the address the channel fetches next are those of the cursor.
C21_RomReadCorrectness ==
    [][ /\ RomLoopServes({ "read" })
            => /\ pi'.txf = << RomHalfWord(pi.last_addr) >>
               /\ 2 * pi.dma_bi < sizeof_pc64_uart_tx_buf
        /\ RomLoopServes({ "read", "write" })
            => /\ Add32(pi.cls.a, 2 * pi'.dma_bi) = pi'.last_addr
               /\ pi'.want = Int32(pi'.last_addr) + 4 ]_vars

(***************************************************************************)
(* Save-RAM.                                                                *)
(***************************************************************************)
\* C22: in the Save-RAM loop the slot of the buffer in use is the one the
\* masking function yields for the cursor, after every read and write, so
\* it never leaves the masked window.
C22_SaveRamBounds ==
    pi.pc = "sram"
        => /\ pi.sram_addr = resolve_sram_address(pi.last_addr) \div 2
           /\ 2 * pi.sram_addr <= SRAM_SIZE_MASK

(***************************************************************************)
(* Replies.                                                                 *)
(***************************************************************************)
\* the places where a fetched read word is served as a read
ReadFetches ==
    { "boot_1", "boot_2", "boot_3", "sram", "rom", "base", "cibase", "cibase_magic", "rand" }

\* a read word is taken at one of the places in S
ReadServedIn(S) ==
    /\ pi.pc \in S
    /\ pi'.words = pi.words + 1
    /\ pi'.op.took = "read"

\* C23: a read word served in a region loop, whatever the region and the
\* register offset, is answered with exactly one reply word before the next
\* bus word is taken.
C23_EveryReadAnswered ==
    [][ ReadServedIn(ReadFetches) => Len(pi'.txf) = 1 ]_vars

(***************************************************************************)
(* The sector registers.                                                    *)
(***************************************************************************)
\* a write word is taken in the Control-Register loop with the cursor at
\* the k-th half of the sector registers
SectorHalfWritten(k) ==
    /\ pi.pc = "cibase"
    /\ pi'.words = pi.words + 1
    /\ pi'.op.took = "write"
    /\ pi.last_addr = Add32(PC64_CIBASE_ADDRESS_START, PC64_REGISTER_SD_READ_SECTOR0 + 2 * k)

\* C24: a write of the 16-bit value d to the k-th half of the sector
\* registers (SD_READ_SECTOR0, +2, SD_READ_SECTOR1, +2) stores d as that
\* half and leaves the others, and the sector the storage controller reads
\* for an SD-read frame is the 64-bit value d0:d1:d2:d3 of the four halves
\* held when the read was requested, d0 most significant.
C24_SectorRoundTrip ==
    [][ /\ \A k \in 0..3 :
              SectorHalfWritten(k)
                  => mcu1'.sd_sector_registers =
                        [mcu1.sd_sector_registers EXCEPT ![k] = W32(Hi16(pi'.op.w), 0)]
        /\ \A i \in DOMAIN stor'.sends :
              LET r == stor'.sends[i]
              IN (r.f > 0 /\ sent12[r.f].cmd = COMMAND_SD_READ)
                    => r.reads = << SectorOf(sent12[r.f].req) >> ]_vars

\* the halves 0xDEAD, 0x1234, 0xDEAD, 0x1234 were written, the read was
\* requested and the storage controller read sector 0xDEAD1234DEAD1234
C24_Witness ==
    \E i \in DOMAIN stor.sends :
        /\ stor.sends[i].f > 0
        /\ sent12[stor.sends[i].f].req = << 57005, 4660, 57005, 4660 >>
        /\ mcu1.sd_sector_registers =
              [k \in 0..3 |-> W32(IF k % 2 = 0 THEN 57005 ELSE 4660, 0)]
        /\ stor.sends[i].reads = << << W32(57005, 4660), W32(57005, 4660) >> >>
        /\ pi.words = 7

(***************************************************************************)
(* The SD-read request frame.                                               *)
(***************************************************************************)
\* the four bytes of a 32-bit value, most significant first
BigEndian(w) == << Byte3(w), Byte2(w), Byte1(w), Byte0(w) >>

\* the sector count held by the count registers: the half written to
\* SD_READ_NUM_SECTORS is kept in register 1, the half written to
\* SD_READ_NUM_SECTORS+2 in register 0
WrittenCount(s) ==
    W32(Hi16(s.sd_sector_count_registers[1]), Hi16(s.sd_sector_count_registers[0]))

\* the requester emits an SD-read frame
SdReadFrameEmitted ==
    /\ Len(sent12') > Len(sent12)
    /\ sent12'[Len(sent12')].cmd = COMMAND_SD_READ

\* C25: a call of pc64_send_sd_read_command emits one frame: DE AD 72, the
\* length 12 big-endian, which is the number of bytes that follow, the
\* eight sector bytes and the four bytes, big-endian, of the sector count
\* written to the SD_READ_NUM_SECTORS registers; busy is set and
\* sendDataReady cleared by the call.
C25_SdReadRequestFrame ==
    [][ SdReadFrameEmitted
          => LET bs == sent12'[Len(sent12')].bytes
             IN /\ Len(sent12') = Len(sent12) + 1
                /\ [k \in 1..Len(bs) |-> wire12'[Len(wire12) + k].b] = bs
                /\ Len(wire12') = Len(wire12) + Len(bs)
                /\ SubSeq(bs, 1, 5) = << COMMAND_START, COMMAND_START2, COMMAND_SD_READ, 0, 12 >>
                /\ Len(bs) = COMMAND_HEADER_LENGTH + 2 + 256 * bs[4] + bs[5]
                /\ SubSeq(bs, 6, 13) = SdReadSectorBytes(mcu1.sd_sector_registers)
                /\ WrittenCount(mcu1) # Zero32
                      => SubSeq(bs, 14, 17) = BigEndian(WrittenCount(mcu1))
                /\ mcu1'.sd_is_busy
                /\ ~mcu1'.sendDataReady ]_vars

(***************************************************************************)
(* SD_SELECT_ROM.                                                           *)
(***************************************************************************)
\* a write word is taken in the Control-Register loop with the cursor at
\* offset reg
CiWriteAt(reg) ==
    /\ pi.pc = "cibase"
    /\ pi'.words = pi.words + 1
    /\ pi'.op.took = "write"
    /\ pi.last_addr = Add32(PC64_CIBASE_ADDRESS_START, reg)

\* the notifications raised so far and the one being raised
Raised(p) == p.fifo \o (IF p.pc = "fifo_push" THEN << p.pushing >> ELSE <<>>)

\* C26: a write to the first half of SD_SELECT_ROM raises no notification,
\* leaves the selected title and advances the cursor by 2; a write to the
\* second half makes the selected title the string held at the start of
\* the transfer buffer, raises one load-new-ROM notification and, once
\* the notification is in the queue, has advanced the cursor by 2.
C26_SelectRomWrite ==
    [][ /\ CiWriteAt(PC64_REGISTER_SD_SELECT_ROM)
            => /\ Raised(pi') = Raised(pi)
               /\ mcu1'.sd_selected_rom_title = mcu1.sd_selected_rom_title
               /\ pi'.last_addr = Add32(pi.last_addr, 2)
        /\ CiWriteAt(PC64_REGISTER_SD_SELECT_ROM + 2)
            => /\ Raised(pi') = Append(Raised(pi), "CORE1_LOAD_NEW_ROM_CMD")
               /\ mcu1'.sd_selected_rom_title = CString(mcu1.pc64_uart_tx_buf)
               /\ pi'.last_addr = IF pi'.pc = "fifo_push" THEN pi.last_addr
                                  ELSE Add32(pi.last_addr, 2)
        /\ (pi.pc = "fifo_push" /\ pi'.pc # "fifo_push")
            => /\ pi'.fifo = Append(pi.fifo, pi.pushing)
               /\ pi'.last_addr = Add32(pi.last_addr, 2) ]_vars

\* the console stored "ABC" in the transfer buffer and wrote both halves of
\* SD_SELECT_ROM
C26_Witness ==
    /\ pi.op.took = "write"
    /\ pi.op.prev = Add32(PC64_CIBASE_ADDRESS_START, PC64_REGISTER_SD_SELECT_ROM + 2)
    /\ pi.last_addr = Add32(PC64_CIBASE_ADDRESS_START, PC64_REGISTER_SD_SELECT_ROM + 4)
    /\ pi.fifo = << "CORE1_LOAD_NEW_ROM_CMD" >>
    /\ mcu1.sd_selected_rom_title = << 65, 66, 67 >>

(***************************************************************************)
(* Payload accumulation.                                                    *)
(***************************************************************************)
\* the parser with globals p, observed by o, counts its payload: a
\* dispatch of a frame with length L >= 1 is made on the L-th byte after
\* the header, and while the payload is being received the bytes after the
\* header are fewer than L, are stored in order from the start of the
\* buffer, and start no header
Accumulates(p, o) ==
    /\ \A i \in DOMAIN o.disp : o.disp[i].len >= 1 => o.disp[i].consumed = o.disp[i].len
    /\ (p.receivingData /\ p.command_numBytesToRead >= 1)
          => /\ o.since < p.command_numBytesToRead
             /\ p.bufferIndex = o.since
             /\ ~p.isReadingCommandHeader

\* C27: on both parsers, after a header with payload length L >= 1 the
\* next L bytes received are stored as payload whatever their values,
\* nothing is dispatched and no frame starts before the L-th, and the
\* dispatch is made when the L-th is received.
C27_PayloadAccumulation == Accumulates(mcu2, obs2) /\ Accumulates(mcu1, obs1)

(***************************************************************************)
(* The reset after a dispatch.                                              *)
(***************************************************************************)
\* the ids of the storage controller's dispatch, lines 485-501
CommandTable2 == { COMMAND_SD_READ, COMMAND_LOAD_ROM, COMMAND_BACKUP_EEPROM }

\* the ids of the requester's dispatch, lines 398-407
CommandTable1 == { COMMAND_SET_EEPROM_TYPE, COMMAND_LOAD_BACKUP_EEPROM, COMMAND_ROM_LOADED }

\* every dispatch the observer o saw left the parser idle, and one of an
\* id outside the table left the job state as it was
ResetAfterDispatch(o, table) ==
    \A i \in DOMAIN o.disp :
        /\ o.disp[i].idle
        /\ o.disp[i].cmd \notin table => o.disp[i].now = o.disp[i].was

\* C28: after a dispatch on either parser, whatever the command id, the
\* parser is idle; and the dispatch of an id that is not in the parser's
\* table leaves the SD job flags and parameters unchanged.
C28_ParserResetAfterDispatch ==
    /\ ResetAfterDispatch(obs2, CommandTable2)
    /\ ResetAfterDispatch(obs1, CommandTable1)

\* each parser has dispatched a frame with an id outside its table
C28_Witness ==
    /\ \E i \in DOMAIN obs2.disp : obs2.disp[i].cmd = COMMAND_ROM_LOADED /\ obs2.disp[i].idle
    /\ \E i \in DOMAIN obs1.disp : obs1.disp[i].cmd = COMMAND_SD_READ /\ obs1.disp[i].idle
    /\ ParserIdle(mcu1)
    /\ ParserIdle(mcu2)

(***************************************************************************)
(* The title received with a ROM-load frame.                                *)
(***************************************************************************)
\* the dispatches the storage controller made of a ROM-load frame that
\* pc64_send_load_new_rom_command produced, the payload received being the
\* bytes of the title sent and no other
LoadRomDispatches ==
    { i \in DOMAIN obs2.disp :
        /\ obs2.disp[i].cmd = COMMAND_LOAD_ROM
        /\ obs2.disp[i].f \in DOMAIN sent12
        /\ sent12[obs2.disp[i].f].cmd = COMMAND_LOAD_ROM
        /\ obs2.disp[i].consumed = Len(sent12[obs2.disp[i].f].req)
        /\ obs2.disp[i].payload = sent12[obs2.disp[i].f].req }

\* C29: after the storage controller dispatches the ROM-load frame sent for
\* the title T, its selected ROM title is T, byte for byte and of the same
\* length, whatever was received into the shared buffer before.
C29_TitleRoundTrip ==
    \A i \in LoadRomDispatches :
        obs2.disp[i].now.sd_selected_rom_title = sent12[obs2.disp[i].f].req

(***************************************************************************)
(* The storage of the selected title.                                       *)
(***************************************************************************)
\* the string s and its terminator fit the title's storage
FitsTitle(s) == Len(s) + 1 <= sizeof_sd_selected_rom_title

\* C30: the selected ROM title held in the job state of either controller
\* never exceeds its 256 bytes of storage, the terminator included,
\* whatever the transfer buffer holds when the title is selected and
\* whatever the payload length of a ROM-load frame.
C30_BoundedTitle ==
    /\ FitsTitle(mcu1.sd_selected_rom_title)
    /\ FitsTitle(mcu2.sd_selected_rom_title)

(***************************************************************************)
(* Where the load writes.                                                   *)
(***************************************************************************)
\* the chip that holds the file offset t
ChipOfOffset(t) == START_ROM_LOAD_CHIP_INDEX + t \div PSRAM_CHIP_CAPACITY_BYTES

\* C31: during load_new_rom every chunk read at the cumulative file offset
\* t is written to the chip that contains t, at t minus that chip's base,
\* an offset below the chip capacity, for every file size.
C31_WritePlacement ==
    \A k \in DOMAIN stor.writes :
        stor.writes[k].len > 0 =>
            /\ stor.writes[k].chip = ChipOfOffset(stor.writes[k].at)
            /\ stor.writes[k].addr = stor.writes[k].at
                   - (stor.writes[k].chip - START_ROM_LOAD_CHIP_INDEX) * PSRAM_CHIP_CAPACITY_BYTES
            /\ stor.writes[k].addr < PSRAM_CHIP_CAPACITY_BYTES

(***************************************************************************)
(* The frames of a load.                                                    *)
(***************************************************************************)
\* the frame is an EEPROM-restore frame for the type: its length field and
\* the number of its payload bytes
RestoreFrame(bytes, eeprom_type) ==
    LET n == IF eeprom_type = EEPROM_TYPE_4K THEN 512 ELSE 2048
    IN /\ Len(bytes) = 5 + n
       /\ SubSeq(bytes, 1, 3) = << COMMAND_START, COMMAND_START2, COMMAND_LOAD_BACKUP_EEPROM >>
       /\ bytes[4] * 256 + bytes[5] = n

\* the commands of the frames a load sends, in their order
JobFrames(eep) ==
    IF eep
    THEN << COMMAND_SET_EEPROM_TYPE, COMMAND_LOAD_BACKUP_EEPROM, COMMAND_ROM_LOADED >>
    ELSE << COMMAND_SET_EEPROM_TYPE, COMMAND_ROM_LOADED >>

\* C32: load_eeprom_from_sd emits an EEPROM-restore frame whose length
\* field is 512 for the 4K type and 2048 otherwise, followed by that many
\* payload bytes, and no byte when the save file cannot be opened; in
\* load_new_rom the frame comes after the set-EEPROM-type frame and before
\* the ROM-loaded frame, which is the last frame of the job.
C32_EepromRestoreFrame ==
    /\ Len(sent21) <= Len(JobFrames(card.eep))
    /\ \A i \in DOMAIN sent21 :
          /\ sent21[i].cmd = JobFrames(card.eep)[i]
          /\ sent21[i].cmd = COMMAND_LOAD_BACKUP_EEPROM =>
                 RestoreFrame(sent21[i].bytes, mcu2.eeprom_type)
    /\ (stor.pc = "idle" /\ sent21 # <<>>) => Len(sent21) = Len(JobFrames(card.eep))

\* a load with a save file and the larger type has sent its three frames
C32_Witness ==
    /\ stor.pc = "idle"
    /\ card.eep
    /\ mcu2.eeprom_type = EEPROM_TYPE_16K
    /\ Len(sent21) = 3
    /\ Len(sent21[2].bytes) = 2053

(***************************************************************************)
(* Reads of the Save-RAM.                                                   *)
(***************************************************************************)
\* the slot of the Save-RAM buffer for the cursor a, line 308
SramSlot(a) == (Lo16(a) % (SRAM_SIZE_MASK + 1)) \div 2

\* C33: within one Save-RAM loop every read is answered with the value the
\* buffer holds, when the read is served, in the slot of the cursor, also
\* when the read follows a write of the same loop.
C33_SaveRamReadAfterWrite ==
    [][ ReadServedIn({ "sram" })
            => pi'.txf = << Load(pi.sram, SramSlot(pi.last_addr)) >> ]_vars

(***************************************************************************)
(* The loop of send_data.                                                   *)
(***************************************************************************)
\* the k-th sector after the 64-bit sector s
SectorPlus(s, k) == << s[1], Add32(s[2], k) >>

\* a call of send_data has returned
SendDataReturned == stor.pc = "idle" /\ stor.sd.loopCount > 0

\* C34: send_data called with n >= 1 makes exactly n block reads, of the n
\* consecutive sectors from the requested one on, and streams exactly
\* n * 512 bytes.
C34_SectorStreamingCount ==
    (SendDataReturned /\ Le32(W32(0, 1), stor.sd.asked)) =>
        /\ stor.sd.reads =
               [k \in 1..Lo16(stor.sd.asked) |-> SectorPlus(stor.sd.sector, k - 1)]
        /\ stor.sd.emitted = Lo16(stor.sd.asked) * SD_CARD_SECTOR_SIZE

\* C35: for every 32-bit sector count, 0 included, the counter of
\* send_data never wraps below zero, and the loop makes at most
\* max(1, count) iterations.
C35_SectorCounterArithmetic ==
    /\ Le32(stor.sd.sectorCount, stor.sd.asked)
    /\ Le32(W32(0, stor.sd.loopCount),
            IF Le32(stor.sd.asked, W32(0, 1)) THEN W32(0, 1) ELSE stor.sd.asked)

(***************************************************************************)
(* The bounds of the receive buffers.                                       *)
(***************************************************************************)
\* every byte stored in the buffer so far went to an index below cap
StoredBelow(buf, cap) == Len(buf) <= cap

\* C36: on both parsers every payload byte is stored at an index smaller
\* than the capacity of the transfer buffer, whatever the declared length,
\* and in the requester's raw sector mode the word index never exceeds the
\* capacity of the transfer buffer.
C36_ReceiveBufferBounds ==
    /\ StoredBelow(mcu2.pc64_uart_tx_buf, sizeof_pc64_uart_tx_buf)
    /\ StoredBelow(mcu1.pc64_uart_tx_buf, sizeof_pc64_uart_tx_buf)
    /\ ~mcu1.romLoading => mcu1.bufferIndex <= PC64_BASE_ADDRESS_LENGTH

(***************************************************************************)
(* Requests made while a response arrives.                                  *)
(***************************************************************************)
\* the first 512 bytes of the transfer buffer, read as the console reads
\* them, half-word by half-word, are the block of the sector asked for by S
HoldsSector(buf, S) ==
    LET block == DiskBufferBytes(SectorOf(S))
    IN \A i \in 0..(SD_CARD_SECTOR_SIZE \div 2 - 1) :
          LoadWord(buf, i) = block[2 * i + 1] * 256 + block[2 * i + 2]

\* C37: whenever sendDataReady becomes true on the requester the first 512
\* bytes of the transfer buffer are the contents of the sector named by the
\* most recent SD-read request, also when that request was made while the
\* response to an earlier one was arriving.
C37_OverlappingRequests ==
    [][ (~mcu1.sendDataReady /\ mcu1'.sendDataReady /\ sent12' # <<>>)
            => HoldsSector(mcu1'.pc64_uart_tx_buf, sent12'[Len(sent12')].req) ]_vars

(***************************************************************************)
(* Requests pending on the storage controller.                              *)
(***************************************************************************)
\* the storage controller has nothing left to do: no byte to receive, no
\* request flagged, the main loop not in a job
StorageQuiet == wire12 = <<>> /\ ~mcu2.sendDataReady /\ stor.pc = "idle"

\* C38: every SD-read frame dispatched by mcu2_process_rx_buffer results
\* in exactly one sector streamed back by the main loop, also when a second
\* frame is dispatched before the main loop has consumed the flag the first
\* one set.
C38_NoLostSdRead ==
    StorageQuiet => Len(stor.sends) = Cardinality(SdReadDispatches)

(***************************************************************************)
(* The restart signal.                                                      *)
(***************************************************************************)
\* the signal goes from true to false
RestartCleared == pi.g_restart_pi_handler /\ ~pi'.g_restart_pi_handler

\* C39: a restart signal raised at any moment, also while n64_pi_run is
\* initialising, is answered by a return from n64_pi_run: the signal is
\* never cleared unless the dispatcher has returned since it was last
\* raised.
C39_RestartNeverLost ==
    [][ RestartCleared => pi.answered = pi.restarts ]_vars

(***************************************************************************)
(* What n64_pi_run acquires.                                                *)
(***************************************************************************)
\* hardware/dma.h: the channels of the DMA controller
NUM_DMA_CHANNELS == 12

\* n64_pi_run is entered
Entered == pi.pc = "off" /\ pi'.pc = "first"

\* C40: n64_pi_run can be entered again after any number of restarts: the
\* DMA channel it claims on entry is released on exit, so the number of
\* claimed channels is the same at every entry (none, as at the first) and
\* stays below the number of channels of the hardware.
C40_Restartability ==
    [][ Entered => (pi.claimed = 0 /\ pi'.claimed < NUM_DMA_CHANNELS) ]_vars

====
